---- MODULE Spec2Model ----
(***************************************************************************)
(* A model of the CSV utilities of ICD_TP_Julia_Mateus_Pedro:              *)
(*   scripts/merge_inmet_focos.py    (Temporal Joiner)                     *)
(*   scripts/remove_columns.py       (Column Pruner, round-to-hour)        *)
(*   scripts/replace_minus999.py     (Sentinel Replacer)                   *)
(*   scripts/remove_empty_column.py  (Header Sanitizer)                    *)
(*   scripts/one_hot_encode_bioma.py (Categorical Encoder)                 *)
(*   scripts/transform_date_time.py  (Temporal Feature Expander)           *)
(*                                                                         *)
(* Python strings are sequences of one-character atoms, so that strip,     *)
(* replace, casefold, strptime and int() are computed character by         *)
(* character.  The atoms "o'", "O'", "i'" and "a^" stand for the           *)
(* precomposed accented letters o-acute, O-acute, i-acute and              *)
(* a-circumflex.                                                           *)
(***************************************************************************)
EXTENDS Integers, Sequences, FiniteSets, TLC

VARIABLES
    \* the parsing functions called on their own
    input,        \* the arguments handed to the functions under test
    calls,        \* function name -> value returned (the functions called so far)
    \* merge() of merge_inmet_focos.py
    mpc,          \* position in merge(): "start", "index", "join", "done", "aborted"
    merr,         \* the exception that ended merge(), "" when none
    inmet_file,   \* the left file: [meta, fields, rows], written as ;-separated lines
    focos_file,   \* the right file: [fields, rows], raw csv rows
    inmet_fields, inmet_rows,
    focos_fields, focos_rows,
    focos_fields_filtered,
    focos_index,  \* dict: datetime -> list of reduced right rows
    out_pairs,    \* ghost: for each data row written, <<left row, right row>> it joins
    next_row,     \* index of the next row of the running for-loop
    out_file,     \* the output file: Absent, or the sequence of rows written
    \* the in-place components
    ipc,          \* position in the component's function
    ierr,         \* the exception that ended the run, "" when none
    comp,         \* which function runs
    inplace,      \* the inplace argument
    input_path,   \* the input_path argument
    temp_path,    \* the path returned by mkstemp
    fs,           \* the file system: path -> text of the file, for the paths that exist
    orig,         \* ghost: fs[input_path] when the run started
    dialect,      \* the dialect of the run's reader and writer (csv.excel until sniffed)
    rd,           \* number of rows the running csv.reader has consumed
    temp_open,    \* the temporary file is open for writing
    replacements, \* process: cells emptied so far
    header,       \* header read from the input
    remove_idxs,  \* remove_empty_header_columns: indices of the columns to drop
    col_idx,      \* one_hot_encode: index of the encoded column (-1 for None)
    categories,   \* one_hot_encode: categories found by the first pass
    sanitized,    \* one_hot_encode: the (category, column name) pairs
    data_idx,     \* transform_file: index of f_data (-1 for None)
    hora_idx,     \* transform_file: index of f_hora_utc (-1 for None)
    ret,          \* value returned (-1 while there is none)
    runs,         \* number of times the component has been started on the file
    moves         \* ghost: for every run that moved its output into place, in order,
                  \* the content the file had when that run started

fnVars == <<input, calls>>
mergeVars == <<mpc, merr, out_pairs, inmet_file, focos_file, inmet_fields, inmet_rows, focos_fields,
               focos_rows, focos_fields_filtered, focos_index, next_row, out_file>>
ipVars == <<ipc, ierr, comp, inplace, input_path, temp_path, fs, orig, dialect, rd, temp_open,
            replacements, header, remove_idxs, col_idx, categories, sanitized, data_idx,
            hora_idx, ret, runs, moves>>
vars == <<input, calls, mpc, merr, out_pairs, inmet_file, focos_file, inmet_fields, inmet_rows,
          focos_fields, focos_rows, focos_fields_filtered, focos_index, next_row,
          out_file, ipc, ierr, comp, inplace, input_path, temp_path, fs, orig, dialect, rd,
          temp_open,
          replacements, header, remove_idxs, col_idx, categories, sanitized, data_idx,
          hora_idx, ret, runs, moves>>

(***************************************************************************)
(* Python values                                                           *)
(***************************************************************************)
\* None where a str is expected (csv.DictReader's restval, dict.get's default)
NoneStr == <<"<None>">>

\* `not s` for s a str or None
Falsy(s) == s = NoneStr \/ s = <<>>

Digits == <<"0", "1", "2", "3", "4", "5", "6", "7", "8", "9">>

IsDigit(c) == \E i \in 1..10 : Digits[i] = c

DigitVal(c) == (CHOOSE i \in 1..10 : Digits[i] = c) - 1

\* str.isspace for the characters of the model
IsSpace(c) == c \in {" ", "\t"}

RECURSIVE LStrip(_)
LStrip(s) == IF s # <<>> /\ IsSpace(Head(s)) THEN LStrip(Tail(s)) ELSE s

RECURSIVE RStrip(_)
RStrip(s) == IF s # <<>> /\ IsSpace(s[Len(s)]) THEN RStrip(SubSeq(s, 1, Len(s) - 1)) ELSE s

\* str.strip()
Strip(s) == RStrip(LStrip(s))

\* str.replace(old, new): every non-overlapping occurrence, left to right
RECURSIVE Replace(_, _, _)
Replace(s, old, new) ==
    IF Len(s) < Len(old) THEN s
    ELSE IF SubSeq(s, 1, Len(old)) = old
         THEN new \o Replace(SubSeq(s, Len(old) + 1, Len(s)), old, new)
         ELSE <<Head(s)>> \o Replace(Tail(s), old, new)

\* `sub in s`
Contains(s, sub) == \E i \in 0..(Len(s) - Len(sub)) : SubSeq(s, i + 1, i + Len(sub)) = sub

RECURSIVE DigitsValue(_)
DigitsValue(s) == IF s = <<>> THEN 0 ELSE 10 * DigitsValue(SubSeq(s, 1, Len(s) - 1)) + DigitVal(s[Len(s)])

\* int(s): surrounding whitespace, an optional sign, digits with single underscores
\* between them; [ok |-> FALSE] stands for ValueError
PyInt(s) ==
    LET t == Strip(s)
        signed == t # <<>> /\ Head(t) \in {"+", "-"}
        u == IF signed THEN Tail(t) ELSE t
        wellFormed ==
            /\ u # <<>>
            /\ \A i \in 1..Len(u) :
                  \/ IsDigit(u[i])
                  \/ /\ u[i] = "_"
                     /\ 1 < i /\ i < Len(u)
                     /\ IsDigit(u[i - 1]) /\ IsDigit(u[i + 1])
        mag == DigitsValue(SelectSeq(u, IsDigit))
    IN  IF wellFormed
        THEN [ok |-> TRUE, n |-> IF signed /\ Head(t) = "-" THEN 0 - mag ELSE mag]
        ELSE [ok |-> FALSE, n |-> 0]

(***************************************************************************)
(* datetime                                                                *)
(***************************************************************************)
\* what a function that builds a datetime can produce
DateTime(y, m, d, H, M, S) == [tag |-> "datetime", v |-> <<y, m, d, H, M, S>>, err |-> ""]
None == [tag |-> "None", v |-> <<>>, err |-> ""]
Raise(e) == [tag |-> "raise", v |-> <<>>, err |-> e]

MAXYEAR == 9999

IsLeap(y) == (y % 4 = 0) /\ ((y % 100 # 0) \/ (y % 400 = 0))

DaysInMonth(y, m) ==
    IF m = 2 THEN (IF IsLeap(y) THEN 29 ELSE 28)
    ELSE IF m \in {4, 6, 9, 11} THEN 30 ELSE 31

\* datetime(year, month, day, hour, minute, second): ValueError when out of range
datetime(y, m, d, H, M, S) ==
    IF /\ 1 <= y /\ y <= MAXYEAR
       /\ 1 <= m /\ m <= 12
       /\ 1 <= d /\ d <= DaysInMonth(y, m)
       /\ 0 <= H /\ H <= 23
       /\ 0 <= M /\ M <= 59
       /\ 0 <= S /\ S <= 59
    THEN DateTime(y, m, d, H, M, S)
    ELSE Raise("ValueError")

\* dt.replace(minute=0, second=0, microsecond=0) + timedelta(hours=1)
PlusOneHour(t) ==
    LET y == t[1]  m == t[2]  d == t[3]  H == t[4]
    IN  IF H < 23 THEN DateTime(y, m, d, H + 1, 0, 0)
        ELSE IF d < DaysInMonth(y, m) THEN DateTime(y, m, d + 1, 0, 0, 0)
        ELSE IF m < 12 THEN DateTime(y, m + 1, 1, 0, 0, 0)
        ELSE IF y < MAXYEAR THEN DateTime(y + 1, 1, 1, 0, 0, 0)
        ELSE Raise("OverflowError")

Directives == {"%Y", "%m", "%d", "%H", "%M", "%S"}

IsDirective(f) == f \in Directives

\* the regular expression _strptime compiles for each directive
FieldOk(f, t) ==
    LET two == Len(t) = 2
        one == Len(t) = 1 /\ IsDigit(t[1])
        nz(c) == IsDigit(c) /\ c # "0"
    IN  CASE f = "%Y" -> Len(t) = 4 /\ \A i \in 1..4 : IsDigit(t[i])
          [] f = "%m" -> \/ two /\ t[1] = "1" /\ t[2] \in {"0", "1", "2"}
                         \/ two /\ t[1] = "0" /\ nz(t[2])
                         \/ one /\ nz(t[1])
          [] f = "%d" -> \/ two /\ t[1] = "3" /\ t[2] \in {"0", "1"}
                         \/ two /\ t[1] \in {"1", "2"} /\ IsDigit(t[2])
                         \/ two /\ t[1] = "0" /\ nz(t[2])
                         \/ one /\ nz(t[1])
                         \/ two /\ t[1] = " " /\ nz(t[2])
          [] f = "%H" -> \/ two /\ t[1] = "2" /\ t[2] \in {"0", "1", "2", "3"}
                         \/ two /\ t[1] \in {"0", "1"} /\ IsDigit(t[2])
                         \/ one
          [] f = "%M" -> \/ two /\ t[1] \in {"0", "1", "2", "3", "4", "5"} /\ IsDigit(t[2])
                         \/ one
          [] f = "%S" -> \/ two /\ t[1] = "6" /\ t[2] \in {"0", "1"}
                         \/ two /\ t[1] \in {"0", "1", "2", "3", "4", "5"} /\ IsDigit(t[2])
                         \/ one

MinOf(a, b) == IF a < b THEN a ELSE b

\* the ways the whole of s matches the format: each a sequence of the directives'
\* values, in the format's order.  A blank in the format stands for \s+.
RECURSIVE MatchFmt(_, _)
MatchFmt(s, fmt) ==
    IF fmt = <<>> THEN (IF s = <<>> THEN {<<>>} ELSE {})
    ELSE LET f == Head(fmt)
             rest(n) == MatchFmt(SubSeq(s, n + 1, Len(s)), Tail(fmt))
         IN  IF IsDirective(f)
             THEN UNION { { <<DigitsValue(SelectSeq(SubSeq(s, 1, n), IsDigit))>> \o r : r \in rest(n) } :
                          n \in { k \in 1..MinOf(Len(s), 4) : FieldOk(f, SubSeq(s, 1, k)) } }
             ELSE IF f = " "
             THEN UNION { rest(n) : n \in { k \in 1..Len(s) : \A j \in 1..k : IsSpace(s[j]) } }
             ELSE IF s # <<>> /\ Head(s) = f THEN rest(1) ELSE {}

\* datetime.strptime(s, fmt); every failure is a ValueError
strptime(s, fmt) ==
    LET ms == MatchFmt(s, fmt)
        dirs == SelectSeq(fmt, IsDirective)
        r == CHOOSE x \in ms : TRUE
        val(dir, default) ==
            IF \E i \in 1..Len(dirs) : dirs[i] = dir
            THEN r[CHOOSE i \in 1..Len(dirs) : dirs[i] = dir]
            ELSE default
    IN  IF ms = {} THEN Raise("ValueError")
        ELSE datetime(val("%Y", 1900), val("%m", 1), val("%d", 1),
                      val("%H", 0), val("%M", 0), val("%S", 0))

(***************************************************************************)
(* merge_inmet_focos.py: the two parsers                                   *)
(***************************************************************************)
sUTC == <<"U", "T", "C">>

FmtInmetDate == <<"%Y", "/", "%m", "/", "%d">>

FmtFocosDate == <<"%d", "/", "%m", "/", "%Y">>

\* HourOfHHMM with the HHMM integer rounded to the nearest hundred
HourOfHHMM_rounded(hour) == (hour + 50) \div 100

\* hour // 100 of the HHMM integer
HourOfHHMM(hour) == hour \div 100

\* `h = hour_str.replace('UTC', '').strip(); h = h.replace(':', ''); int(h)` and the
\* datetime built from it, common to the two parsers
HourKey(d, hour_str) ==
    LET h == Replace(Strip(Replace(hour_str, sUTC, <<>>)), <<":">>, <<>>)
        hour == PyInt(h)
    IN  IF ~hour.ok THEN None
        ELSE datetime(d[1], d[2], d[3], HourOfHHMM(hour.n), 0, 0)

parse_inmet_datetime(date_str, hour_str) ==
    IF Falsy(date_str) THEN None
    ELSE LET d == strptime(Strip(date_str), FmtInmetDate)
         IN  IF d.tag = "raise" THEN None
             ELSE IF Falsy(hour_str) THEN None
             ELSE HourKey(d.v, hour_str)

parse_focos_datetime(date_str, hora_utc_str) ==
    IF Falsy(date_str) THEN None
    ELSE LET d == strptime(Strip(date_str), FmtFocosDate)
         IN  IF d.tag = "raise" THEN None
             ELSE IF Falsy(hora_utc_str) THEN None
             ELSE HourKey(d.v, hora_utc_str)

(***************************************************************************)
(* remove_columns.py: round to the nearest hour                            *)
(***************************************************************************)
RoundFormats ==
    << <<"%Y", "-", "%m", "-", "%d", " ", "%H", ":", "%M", ":", "%S">>,
       <<"%Y", "-", "%m", "-", "%d", " ", "%H", ":", "%M">>,
       <<"%Y", "-", "%m", "-", "%d", "T", "%H", ":", "%M", ":", "%S">>,
       <<"%Y", "-", "%m", "-", "%d", "T", "%H", ":", "%M">> >>

\* `dt.minute >= 30 or (dt.minute == 29 and dt.second >= 30)`
RoundsUp(minute, second) == minute >= 30 \/ (minute = 29 /\ second >= 30)

round_datetime_string_to_hour(s) ==
    LET parsed == { i \in 1..Len(RoundFormats) : strptime(s, RoundFormats[i]).tag = "datetime" }
        first == CHOOSE i \in parsed : \A j \in parsed : i <= j
        dt == strptime(s, RoundFormats[first]).v
    IN  IF parsed = {} THEN None
        ELSE IF RoundsUp(dt[5], dt[6]) THEN PlusOneHour(dt)
        ELSE DateTime(dt[1], dt[2], dt[3], dt[4], 0, 0)

(***************************************************************************)
(* merge_inmet_focos.py: text folding and csv rows                         *)
(***************************************************************************)
UpperCase == <<"A", "B", "C", "D", "E", "F", "G", "H", "I", "J", "K", "L", "M", "N",
               "O", "P", "Q", "R", "S", "T", "U", "V", "W", "X", "Y", "Z", "O'">>

LowerCase == <<"a", "b", "c", "d", "e", "f", "g", "h", "i", "j", "k", "l", "m", "n",
               "o", "p", "q", "r", "s", "t", "u", "v", "w", "x", "y", "z", "o'">>

\* str.casefold, one character
Casefold(c) ==
    IF \E i \in 1..Len(UpperCase) : UpperCase[i] = c
    THEN LowerCase[CHOOSE i \in 1..Len(UpperCase) : UpperCase[i] = c]
    ELSE c

\* NFD decomposition with the combining marks (category Mn) removed, one character
StripAccent(c) ==
    CASE c = "o'" -> "o"
      [] c = "O'" -> "O"
      [] c = "i'" -> "i"
      [] c = "a^" -> "a"
      [] OTHER -> c

\* normalize_text without the removal of the combining marks
normalize_text_keeping_accents(s) ==
    IF s = NoneStr THEN <<>>
    ELSE LET t == Strip(s) IN [i \in 1..Len(t) |-> Casefold(t[i])]

normalize_text(s) ==
    IF s = NoneStr THEN <<>>
    ELSE LET t == Strip(s) IN [i \in 1..Len(t) |-> StripAccent(Casefold(t[i]))]

RECURSIVE Join(_, _)
Join(cells, sep) ==
    IF cells = <<>> THEN <<>>
    ELSE IF Len(cells) = 1 THEN cells[1]
    ELSE cells[1] \o <<sep>> \o Join(Tail(cells), sep)

\* csv.reader on one line without quotes: the cells between the delimiters; an
\* empty line is the empty row
RECURSIVE SplitCells(_, _)
SplitCells(line, sep) ==
    IF \A i \in 1..Len(line) : line[i] # sep THEN <<line>>
    ELSE LET k == CHOOSE i \in 1..Len(line) : line[i] = sep /\ \A j \in 1..(i - 1) : line[j] # sep
         IN  <<SubSeq(line, 1, k - 1)>> \o SplitCells(SubSeq(line, k + 1, Len(line)), sep)

CsvRow(line, sep) == IF line = <<>> THEN <<>> ELSE SplitCells(line, sep)

FieldSet(fields) == { fields[i] : i \in 1..Len(fields) }

\* one row of csv.DictReader: dict(zip(fieldnames, row)), the fields past the end
\* of a short row set to restval (None); a repeated name keeps its last column
DictRow(fields, row) ==
    [ n \in FieldSet(fields) |->
        LET last == CHOOSE i \in 1..Len(fields) :
                        fields[i] = n /\ \A j \in 1..Len(fields) : fields[j] = n => j <= i
        IN  IF last <= Len(row) THEN row[last] ELSE NoneStr ]

\* the rows of csv.DictReader: empty rows are skipped
RECURSIVE DictRows(_, _)
DictRows(fields, rows) ==
    IF rows = <<>> THEN <<>>
    ELSE IF Head(rows) = <<>> THEN DictRows(fields, Tail(rows))
    ELSE <<DictRow(fields, Head(rows))>> \o DictRows(fields, Tail(rows))

\* dict.get(key, default)
Get(d, key, default) == IF key \in DOMAIN d THEN d[key] ELSE default

\* `a or b` on str-or-None values
Or(a, b) == IF Falsy(a) THEN b ELSE a

\* csv.writer writes None as the empty string
WrittenRow(cells) == [i \in 1..Len(cells) |-> IF cells[i] = NoneStr THEN <<>> ELSE cells[i]]

sData == <<"D", "a", "t", "a">>
sHora == <<"H", "o", "r", "a">>
s_data == <<"d", "a", "t", "a">>
s_hora_utc == <<"h", "o", "r", "a", "_", "u", "t", "c">>
s_municipio == <<"m", "u", "n", "i", "c", "i", "p", "i", "o">>
s_Municipio == <<"M", "u", "n", "i", "c", "i", "p", "i", "o">>
s_MUNICIPIO == <<"M", "U", "N", "I", "C", "I", "P", "I", "O">>
sBeloHorizonte == <<"B", "e", "l", "o", " ", "H", "o", "r", "i", "z", "o", "n", "t", "e">>
pref == <<"f", "_">>

\* find_inmet_header_and_rows: 0 when no line holds both 'Data' and 'Hora'
HeaderIdx(lines) ==
    LET hits == { i \in 1..Len(lines) : Contains(lines[i], sData) /\ Contains(lines[i], sHora) }
    IN  IF hits = {} THEN 0 ELSE CHOOSE i \in hits : \A j \in hits : i <= j

InmetFields(lines) == CsvRow(lines[HeaderIdx(lines)], ";")

InmetRows(lines) ==
    DictRows(InmetFields(lines),
             [i \in 1..(Len(lines) - HeaderIdx(lines)) |-> CsvRow(lines[HeaderIdx(lines) + i], ";")])

risco_names ==
    { normalize_text(<<"r", "i", "s", "c", "o", "_", "f", "o", "g", "o">>),
      normalize_text(<<"r", "i", "s", "c", "o", " ", "d", "e", " ", "f", "o", "g", "o">>),
      normalize_text(<<"r", "i", "s", "c", "o", "f", "o", "g", "o">>),
      normalize_text(<<"r", "i", "s", "c", "o">>) }

\* the test of the loop building focos_fields_filtered
IsRiscoField(f) ==
    \/ Replace(normalize_text(f), <<" ">>, <<>>) \in risco_names
    \/ normalize_text(f) \in risco_names

FilterFields(fields) == SelectSeq(fields, LAMBDA f : ~IsRiscoField(f))

\* `r.get('municipio') or r.get('Municipio') or r.get('MUNICIPIO')`, None made ''
MunicipioOf(r) ==
    LET m == Or(Or(Get(r, s_municipio, NoneStr), Get(r, s_Municipio, NoneStr)),
                Get(r, s_MUNICIPIO, NoneStr))
    IN  IF m = NoneStr THEN <<>> ELSE m

IsBeloHorizonte(r) == normalize_text(MunicipioOf(r)) = normalize_text(sBeloHorizonte)

\* `{f: r.get(f, '') for f in focos_fields_filtered}`
Reduced(r, filtered) == [ f \in FieldSet(filtered) |-> Get(r, f, <<>>) ]

\* IndexAppend with the new entry put first in the key's list
IndexAppend_prepending(index, dt, reduced) ==
    [ k \in (DOMAIN index) \cup {dt} |->
        IF k = dt THEN <<reduced>> \o (IF dt \in DOMAIN index THEN index[dt] ELSE <<>>)
        ELSE index[k] ]

\* `focos_index.setdefault(dt, []).append(reduced)`; an entry is [rec, n]: the reduced
\* record, and (ghost) the number of the right row it was made from
IndexAppend(index, dt, reduced) ==
    [ k \in (DOMAIN index) \cup {dt} |->
        IF k = dt THEN Append(IF dt \in DOMAIN index THEN index[dt] ELSE <<>>, reduced)
        ELSE index[k] ]

\* the output rows of one left row against its matches
MergedRows(ir, fields, matches, filtered) ==
    [ k \in 1..Len(matches) |->
        WrittenRow([i \in 1..Len(fields) |-> Get(ir, fields[i], <<>>)]
                   \o [i \in 1..Len(filtered) |-> Get(matches[k].rec, filtered[i], <<>>)]) ]

OutFields(fields, filtered) == fields \o [i \in 1..Len(filtered) |-> pref \o filtered[i]]

NoFile == [exists |-> FALSE, rows |-> <<>>]

EmptyIndex == [k \in {} |-> <<>>]

(***************************************************************************)
(* merge(): the files it is run on                                         *)
(***************************************************************************)
MaxLeftRows == 2
MaxRightRows == 2

SeqsUpTo(S, n) == UNION { [1..k -> S] : k \in 0..n }

d20240102 == <<"2", "0", "2", "4", "/", "0", "1", "/", "0", "2">>
d02012024 == <<"0", "2", "/", "0", "1", "/", "2", "0", "2", "4">>
h0600UTC == <<"0", "6", "0", "0", " ", "U", "T", "C">>
h0630UTC == <<"0", "6", "3", "0", " ", "U", "T", "C">>
h0700UTC == <<"0", "7", "0", "0", " ", "U", "T", "C">>
h2500UTC == <<"2", "5", "0", "0", " ", "U", "T", "C">>
sHoraUTC == <<"H", "o", "r", "a", " ", "U", "T", "C">>
sTemp == <<"T", "e", "m", "p">>
s_frp == <<"f", "r", "p">>
s_risco_fogo == <<"r", "i", "s", "c", "o", "_", "f", "o", "g", "o">>
sContagem == <<"C", "o", "n", "t", "a", "g", "e", "m">>

\* data rows of the left (INMET) file: Data;Hora UTC;Temp
LeftRowKinds ==
    { <<d20240102, h0600UTC, <<"t", "1">>>>,
      <<d20240102, h0700UTC, <<"t", "3">>>>,
      <<d20240102, h2500UTC, <<"t", "4">>>>,                           \* hour 25
      <<d20240102>> }                                                  \* short row

LeftHeaderStd == <<sData, sHoraUTC, sTemp>>

LeftHeaders ==
    { LeftHeaderStd,
      <<sHoraUTC, sTemp>>,                                   \* no date column
      <<sData, sTemp>>,                                      \* no hour column
      <<<<"D", "a", "t", "a", " ", "H", "o", "r", "a">>>> }  \* one column

MetaLine == <<"R", "E", "G", "I", "A", "O", ":", ";", "S", "E">>

\* path.read_text(...).splitlines() of the left file
InmetLines(f) ==
    f.meta \o <<Join(f.fields, ";")>> \o [i \in 1..Len(f.rows) |-> Join(f.rows[i], ";")]

\* data rows of the right (focos) file: data,hora_utc,municipio,risco_fogo,frp
RightRowKinds ==
    { <<d02012024, h0600UTC, sBeloHorizonte, <<"0", ".", "5">>, <<"r", "1">>>>,
      <<d02012024, <<"0", "6", "3", "0">>,
        <<"B", "E", "L", "O", " ", "H", "O", "R", "I", "Z", "O", "N", "T", "E">>, <<>>, <<"r", "2">>>>,
      <<d02012024, h0700UTC,
        <<"B", "e", "l", "o", " ", "H", "o", "r", "i", "z", "o'", "n", "t", "e">>, <<"1">>, <<"r", "3">>>>,
      <<d02012024, h0600UTC, sContagem, <<"0", ".", "5">>, <<"r", "4">>>>,
      <<d02012024, h2500UTC, sBeloHorizonte, <<"0", ".", "5">>, <<"r", "5">>>>,       \* hour 25
      <<<<"2", "0", "2", "4", "-", "0", "1", "-", "0", "2">>, h0600UTC, sBeloHorizonte,
        <<"0", ".", "5">>, <<"r", "6">>>> }                                             \* not a date

\* the values of the locality cell
Localities ==
    { sBeloHorizonte,
      <<"b", "e", "l", "o", " ", "h", "o", "r", "i", "z", "o", "n", "t", "e">>,
      <<"B", "E", "L", "O", " ", "H", "O", "R", "I", "Z", "O", "N", "T", "E">>,
      <<"B", "e", "l", "o", " ", "H", "o", "r", "i", "z", "o'", "n", "t", "e">>,
      <<" ", "B", "e", "l", "o", " ", "H", "o", "r", "i", "z", "o", "n", "t", "e", "\t">>,
      <<"B", "e", "l", "o", " ", "H", "o", "r", "i", "z", "o", "n", "t", "e", " ", "M", "G">>,
      <<"B", "e", "l", "o", " ", " ", "H", "o", "r", "i", "z", "o", "n", "t", "e">>,
      sContagem,
      <<" ">>,
      <<>> }

\* right rows that differ in the locality cell only, and a row too short to have one
LocalityRows ==
    { <<d02012024, h0600UTC, loc, <<"0", ".", "5">>, <<"r", "1">>>> : loc \in Localities }
    \cup { <<d02012024, h0600UTC>> }

RightHeaderStd == <<s_data, s_hora_utc, s_municipio, s_risco_fogo, s_frp>>

RightHeaders ==
    { RightHeaderStd,
      <<s_data, s_hora_utc, s_Municipio,
        <<"R", "i", "s", "c", "o", " ", "D", "e", " ", "F", "o", "g", "o">>, s_frp>>,
      <<s_data, s_hora_utc, s_MUNICIPIO,
        <<"r", "i", "s", "c", "o", "d", "e", "f", "o", "g", "o">>, s_frp>>,
      <<s_data, s_hora_utc, <<"c", "i", "d", "a", "d", "e">>,
        <<"R", "I", "S", "C", "O">>, s_frp>>,                                   \* no locality column
      <<s_data, <<"h", "o", "r", "a">>, s_municipio,
        <<"r", "i", "s", "c", "o", " ", "f", "o", "g", "o">>, s_frp>>,          \* no hora_utc
      <<<<"d", "i", "a">>, s_hora_utc, s_municipio,
        <<"R", "i'", "s", "c", "o">>, s_frp>>,                                  \* no data
      <<s_data, s_hora_utc, s_municipio,
        <<"r", "i", "s", "c", "o", " ", " ", "d", "e", " ", "f", "o", "g", "o">>, s_frp>>,
      <<s_data, s_hora_utc, s_municipio,
        <<"r", "i", "s", "c", "o", "\t", "f", "o", "g", "o">>, <<" ", "R", "i", " ", "s", "c", "O", " ">>>> }

StdLeftRow == <<d20240102, h0600UTC, <<"t", "1">>>>

StdRightRow == <<d02012024, h0600UTC, sBeloHorizonte, <<"0", ".", "5">>, <<"r", "1">>>>

LeftTable(m, h, l) == [meta |-> m, fields |-> h, rows |-> l]

RightTable(h, r) == [fields |-> h, rows |-> r]

(***************************************************************************)
(* merge(): one action per step                                            *)
(***************************************************************************)
\* csv.excel
excel == [delimiter |-> ",", skipinitialspace |-> FALSE, doublequote |-> TRUE]

FnIdle == input = [kind |-> "none", strs |-> <<>>, src |-> <<>>] /\ calls = <<>>

IpIdle ==
    /\ ipc = "idle" /\ ierr = "" /\ comp = "none" /\ inplace = TRUE /\ input_path = <<>>
    /\ temp_path = <<>> /\ fs = <<>> /\ orig = <<>> /\ rd = 0 /\ temp_open = FALSE
    /\ replacements = 0 /\ header = <<>> /\ remove_idxs = {} /\ col_idx = -1
    /\ categories = <<>> /\ sanitized = <<>> /\ data_idx = -1 /\ hora_idx = -1 /\ ret = -1
    /\ runs = 0 /\ moves = <<>> /\ dialect = excel

MergeIdle ==
    /\ mpc = "idle" /\ merr = "" /\ out_pairs = <<>>
    /\ inmet_file = [meta |-> <<>>, fields |-> <<>>, rows |-> <<>>]
    /\ focos_file = [fields |-> <<>>, rows |-> <<>>]
    /\ inmet_fields = <<>> /\ inmet_rows = <<>> /\ focos_fields = <<>> /\ focos_rows = <<>>
    /\ focos_fields_filtered = <<>> /\ focos_index = EmptyIndex /\ next_row = 0
    /\ out_file = NoFile

MergeInit ==
    \* every short pair of tables under the usual headers; every right header
    \* against every locality value; every left header
    /\ \/ \E l \in SeqsUpTo(LeftRowKinds, MaxLeftRows), r \in SeqsUpTo(RightRowKinds, MaxRightRows) :
              /\ inmet_file = LeftTable(<<>>, LeftHeaderStd, l)
              /\ focos_file = RightTable(RightHeaderStd, r)
       \/ \E h \in RightHeaders, r \in LocalityRows :
              /\ inmet_file = LeftTable(<<>>, LeftHeaderStd, <<StdLeftRow>>)
              /\ focos_file = RightTable(h, <<r>>)
       \/ \E m \in {<<>>, <<MetaLine>>}, h \in LeftHeaders :
              /\ inmet_file = LeftTable(m, h, <<StdLeftRow>>)
              /\ focos_file = RightTable(RightHeaderStd, <<StdRightRow>>)
    /\ mpc = "start" /\ merr = "" /\ out_pairs = <<>>
    /\ inmet_fields = <<>> /\ inmet_rows = <<>> /\ focos_fields = <<>> /\ focos_rows = <<>>
    /\ focos_fields_filtered = <<>> /\ focos_index = EmptyIndex /\ next_row = 0
    /\ out_file = NoFile
    /\ FnIdle /\ IpIdle

\* find_inmet_header_and_rows raises ValueError: no header line
ReadInmetFails ==
    /\ mpc = "start"
    /\ HeaderIdx(InmetLines(inmet_file)) = 0
    /\ mpc' = "aborted"
    /\ merr' = "ValueError: header not found"
    /\ UNCHANGED <<inmet_file, focos_file, inmet_fields, inmet_rows, focos_fields, focos_rows,
                   focos_fields_filtered, focos_index, next_row, out_file, out_pairs>>
    /\ UNCHANGED <<fnVars, ipVars>>

ReadInmet ==
    /\ mpc = "start"
    /\ HeaderIdx(InmetLines(inmet_file)) # 0
    /\ inmet_fields' = InmetFields(InmetLines(inmet_file))
    /\ inmet_rows' = InmetRows(InmetLines(inmet_file))
    /\ mpc' = "read_focos"
    /\ UNCHANGED <<inmet_file, focos_file, focos_fields, focos_rows,
                   focos_fields_filtered, focos_index, next_row, out_file, out_pairs, merr>>
    /\ UNCHANGED <<fnVars, ipVars>>

\* read_focos and the loop that builds focos_fields_filtered
ReadFocos ==
    /\ mpc = "read_focos"
    /\ focos_fields' = focos_file.fields
    /\ focos_rows' = DictRows(focos_file.fields, focos_file.rows)
    /\ focos_fields_filtered' = FilterFields(focos_file.fields)
    /\ focos_index' = EmptyIndex
    /\ next_row' = 1
    /\ mpc' = "index"
    /\ UNCHANGED <<inmet_file, focos_file, inmet_fields, inmet_rows, out_file, out_pairs, merr>>
    /\ UNCHANGED <<fnVars, ipVars>>

\* one iteration of `for r in focos_rows`
IndexRow ==
    /\ mpc = "index"
    /\ next_row <= Len(focos_rows)
    /\ LET r == focos_rows[next_row]
           dt == parse_focos_datetime(Get(r, s_data, <<>>), Get(r, s_hora_utc, <<>>))
       IN  IF ~IsBeloHorizonte(r)
           THEN mpc' = mpc /\ merr' = merr /\ next_row' = next_row + 1
                /\ focos_index' = focos_index
           ELSE IF dt.tag = "raise"
           THEN mpc' = "aborted" /\ merr' = dt.err /\ next_row' = next_row
                /\ focos_index' = focos_index
           ELSE IF dt.tag = "None"
           THEN mpc' = mpc /\ merr' = merr /\ next_row' = next_row + 1
                /\ focos_index' = focos_index
           ELSE /\ mpc' = mpc /\ merr' = merr
                /\ next_row' = next_row + 1
                /\ focos_index' = IndexAppend(focos_index, dt.v,
                                      [rec |-> Reduced(r, focos_fields_filtered), n |-> next_row])
    /\ UNCHANGED <<inmet_file, focos_file, inmet_fields, inmet_rows, focos_fields, focos_rows,
                   focos_fields_filtered, out_file, out_pairs>>
    /\ UNCHANGED <<fnVars, ipVars>>

\* the output file is opened and its header written
WriteHeader ==
    /\ mpc = "index"
    /\ next_row > Len(focos_rows)
    /\ out_file' = [exists |-> TRUE, rows |-> <<OutFields(inmet_fields, focos_fields_filtered)>>]
    /\ next_row' = 1
    /\ mpc' = "join"
    /\ UNCHANGED <<inmet_file, focos_file, inmet_fields, inmet_rows, focos_fields, focos_rows,
                   focos_fields_filtered, focos_index, out_pairs, merr>>
    /\ UNCHANGED <<fnVars, ipVars>>

\* one iteration of `for ir in inmet_rows`; inmet_fields[1] is an IndexError when
\* the header has one column
JoinRow ==
    /\ mpc = "join"
    /\ next_row <= Len(inmet_rows)
    /\ IF Len(inmet_fields) < 2
       THEN mpc' = "aborted" /\ merr' = "IndexError" /\ next_row' = next_row
            /\ out_file' = out_file /\ out_pairs' = out_pairs
       ELSE LET ir == inmet_rows[next_row]
                dt == parse_inmet_datetime(Get(ir, inmet_fields[1], NoneStr),
                                           Get(ir, inmet_fields[2], NoneStr))
                matches == IF dt.tag = "datetime" /\ dt.v \in DOMAIN focos_index
                           THEN focos_index[dt.v] ELSE <<>>
            IN  IF dt.tag = "raise"
                THEN mpc' = "aborted" /\ merr' = dt.err /\ next_row' = next_row
                     /\ out_file' = out_file /\ out_pairs' = out_pairs
                ELSE /\ mpc' = mpc /\ merr' = merr
                     /\ next_row' = next_row + 1
                     /\ out_file' = [out_file EXCEPT !.rows =
                            @ \o MergedRows(ir, inmet_fields, matches, focos_fields_filtered)]
                     /\ out_pairs' = out_pairs \o
                            [k \in 1..Len(matches) |-> <<next_row, matches[k].n>>]
    /\ UNCHANGED <<inmet_file, focos_file, inmet_fields, inmet_rows, focos_fields, focos_rows,
                   focos_fields_filtered, focos_index>>
    /\ UNCHANGED <<fnVars, ipVars>>

\* the loop ends, the file is closed and merge returns
MergeReturns ==
    /\ mpc = "join"
    /\ next_row > Len(inmet_rows)
    /\ mpc' = "done"
    /\ UNCHANGED <<inmet_file, focos_file, inmet_fields, inmet_rows, focos_fields, focos_rows,
                   focos_fields_filtered, focos_index, next_row, out_file, out_pairs, merr>>
    /\ UNCHANGED <<fnVars, ipVars>>

MergeNext ==
    \/ ReadInmetFails
    \/ ReadInmet
    \/ ReadFocos
    \/ IndexRow
    \/ WriteHeader
    \/ JoinRow
    \/ MergeReturns

SpecMerge == MergeInit /\ [][MergeNext]_vars

(***************************************************************************)
(* Properties of merge()                                                   *)
(***************************************************************************)
DataRows == IF out_file.exists THEN Tail(out_file.rows) ELSE <<>>

MergeEnded == mpc \in {"done", "aborted"}

LeftKey(ir) ==
    IF Len(inmet_fields) < 2 THEN None
    ELSE parse_inmet_datetime(Get(ir, inmet_fields[1], NoneStr), Get(ir, inmet_fields[2], NoneStr))

RightKey(r) == parse_focos_datetime(Get(r, s_data, <<>>), Get(r, s_hora_utc, <<>>))

\* left row i and right row j are a pair of the join
Paired(i, j) ==
    /\ IsBeloHorizonte(focos_rows[j])
    /\ LeftKey(inmet_rows[i]).tag = "datetime"
    /\ RightKey(focos_rows[j]).tag = "datetime"
    /\ LeftKey(inmet_rows[i]).v = RightKey(focos_rows[j]).v

\* the pairs <<i, j>> with i <= n, by left row and then by right row
RECURSIVE PairsUpTo(_)
PairsUpTo(n) ==
    IF n = 0 THEN <<>>
    ELSE PairsUpTo(n - 1) \o
         [k \in 1..Cardinality({j \in 1..Len(focos_rows) : Paired(n, j)}) |->
            <<n, CHOOSE j \in 1..Len(focos_rows) :
                    /\ Paired(n, j)
                    /\ Cardinality({q \in 1..j : Paired(n, q)}) = k>>]

\* the row the join writes for left row i and right row j
PairRow(i, j) ==
    WrittenRow([c \in 1..Len(inmet_fields) |-> Get(inmet_rows[i], inmet_fields[c], <<>>)]
               \o [c \in 1..Len(focos_fields_filtered) |->
                       Get(focos_rows[j], focos_fields_filtered[c], <<>>)])

\* every data row of the output is the row of the pair recorded for it
RowsAreTheirPairs ==
    /\ Len(DataRows) = Len(out_pairs)
    /\ \A k \in 1..Len(out_pairs) : DataRows[k] = PairRow(out_pairs[k][1], out_pairs[k][2])

\* C1: when merge has ended, the data rows of the output are exactly the pairs
\* (L, R) with R passing the locality filter, both parsing to a Timestamp Key and
\* the keys equal, one row per pair; a left row without a key or without a match
\* contributes no row.
C1_OutputIsExactlyTheJoin ==
    MergeEnded => /\ RowsAreTheirPairs
                  /\ out_pairs = PairsUpTo(Len(inmet_rows))

\* The same statement for the runs that return normally (it holds: the runs that
\* break C1_OutputIsExactlyTheJoin are those a row's hour aborts, see C3).
MergeCompletedOutputIsJoin ==
    mpc = "done" => /\ RowsAreTheirPairs
                    /\ out_pairs = PairsUpTo(Len(inmet_rows))

\* C2: the output rows are grouped by left row in left input order, and within one
\* left row's group the right rows are in the order of the right file; each data
\* row is the row of its pair.
C2_OutputOrder ==
    /\ RowsAreTheirPairs
    /\ \A a, b \in 1..Len(out_pairs) :
          a < b => \/ out_pairs[a][1] < out_pairs[b][1]
                   \/ /\ out_pairs[a][1] = out_pairs[b][1]
                      /\ out_pairs[a][2] < out_pairs[b][2]

\* a run that wrote two rows for one left row and then a row for a later left row
C2_Witness ==
    /\ mpc = "done"
    /\ \E a, b, c \in 1..Len(out_pairs) :
          /\ a < b /\ b < c
          /\ out_pairs[a][1] = out_pairs[b][1]
          /\ out_pairs[b][1] < out_pairs[c][1]
          /\ DataRows[a] # DataRows[b]

\* the faults of a table's structure: no header line, or a header of one column
StructuralErrors == {"ValueError: header not found", "IndexError"}

\* C3: no row whose date or hour cannot be made a Timestamp Key aborts the run:
\* merge is aborted by a structural error only.
C3_RowParseFailureNeverAborts == mpc = "aborted" => merr \in StructuralErrors

LeftLacksKeyColumn ==
    sData \notin FieldSet(inmet_file.fields) \/ sHoraUTC \notin FieldSet(inmet_file.fields)

RightLacksKeyColumn ==
    s_data \notin FieldSet(focos_file.fields) \/ s_hora_utc \notin FieldSet(focos_file.fields)

\* C5: when the left header lacks its date or hour column, or the right header
\* lacks 'data' or 'hora_utc', merge does not return normally with an output file.
C5_MissingKeyColumnAborts ==
    (LeftLacksKeyColumn \/ RightLacksKeyColumn) => ~(mpc = "done" /\ out_file.exists)

\* the characters that fold to c, for the characters of 'belo horizonte'
FoldClass(c) ==
    CASE c = "b" -> {"b", "B"}
      [] c = "e" -> {"e", "E"}
      [] c = "l" -> {"l", "L"}
      [] c = "o" -> {"o", "O", "o'", "O'"}
      [] c = " " -> {" "}
      [] c = "h" -> {"h", "H"}
      [] c = "r" -> {"r", "R"}
      [] c = "i" -> {"i", "I", "i'"}
      [] c = "z" -> {"z", "Z"}
      [] c = "n" -> {"n", "N"}
      [] c = "t" -> {"t", "T"}

FoldedTarget == <<"b", "e", "l", "o", " ", "h", "o", "r", "i", "z", "o", "n", "t", "e">>

\* the cell is the target up to case and accents, with blanks around it
IsTargetLocality(cell) ==
    \E a \in 0..Len(cell) :
        /\ a + Len(FoldedTarget) <= Len(cell)
        /\ \A i \in 1..Len(cell) :
              IF i <= a \/ i > a + Len(FoldedTarget) THEN cell[i] \in {" ", "\t"}
              ELSE cell[i] \in FoldClass(FoldedTarget[i - a])

LocalitySpellings == {s_municipio, s_Municipio, s_MUNICIPIO}

LocalityColumns == { c \in 1..Len(focos_file.fields) : focos_file.fields[c] \in LocalitySpellings }

\* the locality cell of right row k: empty when the header has no locality column
\* or the row is too short to have the cell
LocalityCell(k) ==
    LET c == CHOOSE x \in LocalityColumns : TRUE
    IN  IF LocalityColumns = {} THEN <<>>
        ELSE IF c > Len(focos_file.rows[k]) THEN <<>>
        ELSE focos_file.rows[k][c]

IsIndexed(k) ==
    \E key \in DOMAIN focos_index : \E p \in 1..Len(focos_index[key]) : focos_index[key][p].n = k

\* the right rows the indexing loop has gone through
RowsIndexed ==
    IF mpc = "index" THEN next_row - 1
    ELSE IF mpc \in {"join", "done"} \/ (mpc = "aborted" /\ out_file.exists) THEN Len(focos_rows)
    ELSE IF mpc = "aborted" /\ merr = "ValueError" THEN next_row - 1
    ELSE 0

\* C6: a right row (with a timestamp that parses) is indexed if and only if its
\* locality cell, trimmed and folded, is 'belo horizonte', whichever spelling of the
\* locality column the header uses; a substring match, an empty cell and a missing
\* column are rejected.
C6_LocalityFilter ==
    Cardinality(LocalityColumns) <= 1 =>
        \A k \in 1..RowsIndexed :
            IsIndexed(k) <=> (IsTargetLocality(LocalityCell(k))
                              /\ RightKey(focos_rows[k]).tag = "datetime")

\* a row under the header 'MUNICIPIO' indexed for an accented, blank-padded or
\* upper-case spelling of the target
C6_Witness ==
    /\ mpc = "done"
    /\ s_MUNICIPIO \in FieldSet(focos_file.fields)
    /\ \E k \in 1..Len(focos_rows) : IsIndexed(k) /\ LocalityCell(k) # sBeloHorizonte

\* the name with case, accents and all whitespace taken out
Squeezed(name) == SelectSeq(normalize_text(name), LAMBDA c : ~IsSpace(c))

ExclusionSet ==
    { <<"r", "i", "s", "c", "o", "_", "f", "o", "g", "o">>,
      <<"r", "i", "s", "c", "o", " ", "d", "e", " ", "f", "o", "g", "o">>,
      <<"r", "i", "s", "c", "o", "f", "o", "g", "o">>,
      <<"r", "i", "s", "c", "o">> }

MatchesExclusion(name) == \E x \in ExclusionSet : Squeezed(name) = Squeezed(x)

\* C8: the output header is the left header followed by 'f_' + name for each right
\* column, in order, whose name does not match the exclusion set when compared
\* without regard to case, accents and whitespace; the rows carry those columns.
C8_ColumnProjection ==
    out_file.exists =>
        /\ out_file.rows[1] =
              inmet_fields \o
              [i \in 1..Len(SelectSeq(focos_fields, LAMBDA f : ~MatchesExclusion(f))) |->
                  pref \o SelectSeq(focos_fields, LAMBDA f : ~MatchesExclusion(f))[i]]
        /\ \A k \in 1..Len(DataRows) : Len(DataRows[k]) = Len(out_file.rows[1])

(***************************************************************************)
(* The in-place components: pure parts                                     *)
(***************************************************************************)
\* str.lower
Lower(s) == [i \in 1..Len(s) |-> Casefold(s[i])]

\* str.startswith
StartsWith(s, p) == Len(s) >= Len(p) /\ SubSeq(s, 1, Len(p)) = p

\* list.index as a 0-based position, -1 when the value is not in the list
Index0(list, x) ==
    IF \E i \in 1..Len(list) : list[i] = x
    THEN (CHOOSE i \in 1..Len(list) : list[i] = x /\ \A j \in 1..(i - 1) : list[j] # x) - 1
    ELSE -1

\* str(n) for n >= 0
RECURSIVE IntToStr(_)
IntToStr(n) == IF n < 10 THEN <<Digits[n + 1]>> ELSE IntToStr(n \div 10) \o <<Digits[(n % 10) + 1]>>

RECURSIVE Concat(_)
Concat(ss) == IF ss = <<>> THEN <<>> ELSE Head(ss) \o Concat(Tail(ss))

\* `row + [""] * (len(header) - len(row))` under `if len(row) < len(header)`
Pad(row, h) == IF Len(row) < Len(h) THEN row \o [i \in 1..(Len(h) - Len(row)) |-> <<>>] ELSE row

\* `[cell for i, cell in enumerate(row) if i not in idxs]` (i is 0-based)
RECURSIVE Without(_, _, _)
Without(row, idxs, i) ==
    IF row = <<>> THEN <<>>
    ELSE (IF i \in idxs THEN <<>> ELSE <<Head(row)>>) \o Without(Tail(row), idxs, i + 1)

RECURSIVE Pow10(_)
Pow10(k) == IF k = 0 THEN 1 ELSE 10 * Pow10(k - 1)

AllDigits(s) == \A i \in 1..Len(s) : IsDigit(s[i])

\* digits, with single underscores allowed between two digits
DigitGroup(g) ==
    \A i \in 1..Len(g) :
        \/ IsDigit(g[i])
        \/ g[i] = "_" /\ 1 < i /\ i < Len(g) /\ IsDigit(g[i - 1]) /\ IsDigit(g[i + 1])

\* position of the first character of s that is in cs, 0 when there is none
FirstOf(s, cs) ==
    IF \E i \in 1..Len(s) : s[i] \in cs
    THEN CHOOSE i \in 1..Len(s) : s[i] \in cs /\ \A j \in 1..(i - 1) : s[j] \notin cs
    ELSE 0

\* float(s) for a decimal literal [sign] digits [. digits] [e [sign] digits], kept
\* exactly as sign, digits and power of ten: the value is (-1)^neg * num * 10^exp10.
\* [ok |-> FALSE] stands for ValueError.
PyFloat(s) ==
    LET signed == s # <<>> /\ Head(s) \in {"+", "-"}
        u == IF signed THEN Tail(s) ELSE s
        e == FirstOf(u, {"e", "E"})
        mant == IF e = 0 THEN u ELSE SubSeq(u, 1, e - 1)
        ex == IF e = 0 THEN <<>> ELSE SubSeq(u, e + 1, Len(u))
        exSigned == ex # <<>> /\ Head(ex) \in {"+", "-"}
        exDigits == IF exSigned THEN Tail(ex) ELSE ex
        dot == FirstOf(mant, {"."})
        ipart == IF dot = 0 THEN mant ELSE SubSeq(mant, 1, dot - 1)
        fpart == IF dot = 0 THEN <<>> ELSE SubSeq(mant, dot + 1, Len(mant))
        ip == SelectSeq(ipart, IsDigit)
        fp == SelectSeq(fpart, IsDigit)
        wellFormed ==
            /\ DigitGroup(ipart) /\ DigitGroup(fpart) /\ Len(ip) + Len(fp) >= 1
            /\ e # 0 => exDigits # <<>> /\ DigitGroup(exDigits)
        exMag == DigitsValue(SelectSeq(exDigits, IsDigit))
        exVal == IF exSigned /\ Head(ex) = "-" THEN 0 - exMag ELSE exMag
    IN  IF wellFormed
        THEN [ok |-> TRUE, neg |-> signed /\ Head(s) = "-", num |-> DigitsValue(ip \o fp),
              exp10 |-> exVal - Len(fp)]
        ELSE [ok |-> FALSE, neg |-> FALSE, num |-> 0, exp10 |-> 0]

\* EqualsMinus999 with the magnitudes compared and the sign ignored
EqualsMinus999_magnitude(f) ==
    /\ f.ok
    /\ IF f.exp10 >= 0 THEN f.num * Pow10(f.exp10) = 999
       ELSE f.num = 999 * Pow10(0 - f.exp10)

\* `num == -999.0`
EqualsMinus999(f) ==
    /\ f.ok /\ f.neg
    /\ IF f.exp10 >= 0 THEN f.num * Pow10(f.exp10) = 999
       ELSE f.num = 999 * Pow10(0 - f.exp10)

sMinus999 == <<"-", "9", "9", "9">>

\* replace_minus999.process, the test on one cell: is it emptied?
IsSentinel(cell) ==
    LET stripped == Strip(cell)
    IN  /\ stripped # <<>>
        /\ IF PyFloat(stripped).ok THEN EqualsMinus999(PyFloat(stripped))
           ELSE stripped = sMinus999

\* replace_minus999.process, one row
ReplacedRow(row) == [i \in 1..Len(row) |-> IF IsSentinel(row[i]) THEN <<>> ELSE row[i]]

ReplacedCount(row) == Cardinality({ i \in 1..Len(row) : IsSentinel(row[i]) })

sUnnamed == <<"u", "n", "n", "a", "m", "e", "d">>

\* remove_empty_column: the 0-based indices of the blank or unnamed header cells
RemoveIdxs(h) ==
    { i \in 0..(Len(h) - 1) :
        Strip(h[i + 1]) = <<>> \/ StartsWith(Lower(Strip(h[i + 1])), sUnnamed) }

\* remove_empty_column: one output row
SanitizedRow(row, h, idxs) == Without(Pad(row, h), idxs, 0)

IsAsciiAlnum(c) ==
    \/ IsDigit(c)
    \/ \E i \in 1..26 : LowerCase[i] = c \/ UpperCase[i] = c

\* re.sub(r"[^0-9A-Za-z]+", "_", s)
RECURSIVE SubNonAlnum(_)
SubNonAlnum(s) ==
    IF s = <<>> THEN <<>>
    ELSE IF IsAsciiAlnum(Head(s)) THEN <<Head(s)>> \o SubNonAlnum(Tail(s))
    ELSE LET rest == SubNonAlnum(Tail(s))
         IN  IF Len(s) > 1 /\ ~IsAsciiAlnum(s[2]) THEN rest ELSE <<"_">> \o rest

RECURSIVE StripUnderscores(_)
StripUnderscores(s) ==
    IF s # <<>> /\ Head(s) = "_" THEN StripUnderscores(Tail(s))
    ELSE IF s # <<>> /\ s[Len(s)] = "_" THEN StripUnderscores(SubSeq(s, 1, Len(s) - 1))
    ELSE s

s_bioma == <<"b", "i", "o", "m", "a">>
s_f_bioma == <<"f", "_", "b", "i", "o", "m", "a">>

\* NFKD followed by encode("ascii", "ignore"): the base letter of an accented one
AsciiFold(s) == [i \in 1..Len(s) |-> StripAccent(s[i])]

sanitize_colname(s) ==
    LET t == StripUnderscores(SubNonAlnum(AsciiFold(Strip(s))))
    IN  IF t = <<>> THEN s_bioma ELSE t

\* collect_categories: the index of the column, exact match first, then lowered
FindColumn(h, column_name) ==
    IF Index0(h, column_name) # -1 THEN Index0(h, column_name)
    ELSE Index0([i \in 1..Len(h) |-> Lower(h[i])], Lower(column_name))

\* the value of the encoded column in one row, as both passes read it
CellValue(row, idx) == IF Len(row) <= idx THEN <<>> ELSE Strip(row[idx + 1])

\* CollectFrom with a new category put first in the list
RECURSIVE CollectFrom_newest_first(_, _, _)
CollectFrom_newest_first(rows, idx, cats) ==
    IF rows = <<>> THEN cats
    ELSE LET val == CellValue(Head(rows), idx)
         IN  CollectFrom_newest_first(Tail(rows), idx,
                         IF val # <<>> /\ \A i \in 1..Len(cats) : cats[i] # val
                         THEN <<val>> \o cats ELSE cats)

\* collect_categories: the loop over the data rows
RECURSIVE CollectFrom(_, _, _)
CollectFrom(rows, idx, cats) ==
    IF rows = <<>> THEN cats
    ELSE LET val == CellValue(Head(rows), idx)
         IN  CollectFrom(Tail(rows), idx,
                         IF val # <<>> /\ \A i \in 1..Len(cats) : cats[i] # val
                         THEN Append(cats, val) ELSE cats)

\* one_hot_encode: `while name in used: name = f"{base}_{i}"; i += 1`
RECURSIVE UniqueName(_, _, _, _)
\* the suffix _1 tried once and taken as it is
UniqueName_suffix_once(name, base, i, used) ==
    IF name \in used THEN base \o <<"_">> \o IntToStr(i) ELSE name

UniqueName(name, base, i, used) ==
    IF name \in used THEN UniqueName(base \o <<"_">> \o IntToStr(i), base, i + 1, used) ELSE name

\* one_hot_encode: the list of (cat, name) pairs
RECURSIVE SanitizedPairs(_, _)
SanitizedPairs(cats, done) ==
    IF cats = <<>> THEN done
    ELSE LET base == sanitize_colname(Head(cats))
             name == UniqueName(base, base, 1, { done[i][2] : i \in 1..Len(done) })
         IN  SanitizedPairs(Tail(cats), Append(done, <<Head(cats), name>>))

OneHotHeaderRow(h, idx, pairs) ==
    Without(h, {idx}, 0) \o [i \in 1..Len(pairs) |-> s_bioma \o <<"_">> \o pairs[i][2]]

\* one_hot_encode: the cells appended to a row
OneHots(val, pairs) ==
    [i \in 1..Len(pairs) |-> IF val # <<>> /\ val = pairs[i][1] THEN <<"1">> ELSE <<"0">>]

\* one_hot_encode: one output row
OneHotRow(row, h, idx, pairs) ==
    LET padded == Pad(row, h)
    IN  Without(padded, {idx}, 0) \o OneHots(CellValue(padded, idx), pairs)

\* re.findall(r"\d+", s)
RECURSIVE DigitRuns(_)
DigitRuns(s) ==
    IF s = <<>> THEN <<>>
    ELSE IF ~IsDigit(Head(s)) THEN DigitRuns(Tail(s))
    ELSE LET n == IF AllDigits(s) THEN Len(s)
                  ELSE (CHOOSE i \in 1..Len(s) : ~IsDigit(s[i]) /\ AllDigits(SubSeq(s, 1, i - 1))) - 1
         IN  <<SubSeq(s, 1, n)>> \o DigitRuns(SubSeq(s, n + 1, Len(s)))

parse_date_to_dmy(s) ==
    LET parts == DigitRuns(s)
        day == IF Len(parts) >= 1 THEN parts[1] ELSE <<>>
        month == IF Len(parts) >= 2 THEN parts[2] ELSE <<>>
        year == IF Len(parts) >= 3 THEN parts[3] ELSE <<>>
    IN  IF s = <<>> \/ parts = <<>> THEN << <<>>, <<>>, <<>> >>
        ELSE <<day, month, IF Len(year) = 2 THEN IntToStr(2000 + DigitsValue(year)) ELSE year>>

MinutesPerDay == 1440

\* sys.int_info.default_max_str_digits: int() raises ValueError for a longer string
MaxStrDigits == 4300

NoFraction == [none |-> TRUE, raised |-> FALSE, minutes |-> 0]

\* the fraction of the day (hh + mm / 60) / 24, kept as its numerator over
\* MinutesPerDay; raised stands for the ValueError of int()
parse_time_to_fraction(s) ==
    LET digits == DigitRuns(s)
        token == digits[1]
        tooLong == Len(token) - 2 > MaxStrDigits
        hh == IF Len(token) >= 3 THEN DigitsValue(SubSeq(token, 1, Len(token) - 2))
              ELSE DigitsValue(token)
        mm == IF Len(token) >= 3 THEN DigitsValue(SubSeq(token, Len(token) - 1, Len(token)))
              ELSE 0
        inRange == 0 <= hh /\ hh <= 23 /\ 0 <= mm /\ mm <= 59
    IN  IF s = <<>> \/ digits = <<>> THEN NoFraction
        ELSE IF tooLong THEN [none |-> FALSE, raised |-> TRUE, minutes |-> 0]
        ELSE [none |-> FALSE, raised |-> FALSE,
              minutes |-> IF inRange THEN hh * 60 + mm ELSE (hh % 24) * 60 + (mm % 60)]

\* time_fraction_to_sin_cos followed by f"{s:.6f}", f"{c:.6f}": the cells CPython
\* writes for the half-hour marks 00:00, 00:30, ..., 23:30
SinCosCells ==
    <<
       <<<<"0", ".", "0", "0", "0", "0", "0", "0">>, <<"1", ".", "0", "0", "0", "0", "0", "0">>>>,
       <<<<"0", ".", "1", "3", "0", "5", "2", "6">>, <<"0", ".", "9", "9", "1", "4", "4", "5">>>>,
       <<<<"0", ".", "2", "5", "8", "8", "1", "9">>, <<"0", ".", "9", "6", "5", "9", "2", "6">>>>,
       <<<<"0", ".", "3", "8", "2", "6", "8", "3">>, <<"0", ".", "9", "2", "3", "8", "8", "0">>>>,
       <<<<"0", ".", "5", "0", "0", "0", "0", "0">>, <<"0", ".", "8", "6", "6", "0", "2", "5">>>>,
       <<<<"0", ".", "6", "0", "8", "7", "6", "1">>, <<"0", ".", "7", "9", "3", "3", "5", "3">>>>,
       <<<<"0", ".", "7", "0", "7", "1", "0", "7">>, <<"0", ".", "7", "0", "7", "1", "0", "7">>>>,
       <<<<"0", ".", "7", "9", "3", "3", "5", "3">>, <<"0", ".", "6", "0", "8", "7", "6", "1">>>>,
       <<<<"0", ".", "8", "6", "6", "0", "2", "5">>, <<"0", ".", "5", "0", "0", "0", "0", "0">>>>,
       <<<<"0", ".", "9", "2", "3", "8", "8", "0">>, <<"0", ".", "3", "8", "2", "6", "8", "3">>>>,
       <<<<"0", ".", "9", "6", "5", "9", "2", "6">>, <<"0", ".", "2", "5", "8", "8", "1", "9">>>>,
       <<<<"0", ".", "9", "9", "1", "4", "4", "5">>, <<"0", ".", "1", "3", "0", "5", "2", "6">>>>,
       <<<<"1", ".", "0", "0", "0", "0", "0", "0">>, <<"0", ".", "0", "0", "0", "0", "0", "0">>>>,
       <<<<"0", ".", "9", "9", "1", "4", "4", "5">>, <<"-", "0", ".", "1", "3", "0", "5", "2", "6">>>>,
       <<<<"0", ".", "9", "6", "5", "9", "2", "6">>, <<"-", "0", ".", "2", "5", "8", "8", "1", "9">>>>,
       <<<<"0", ".", "9", "2", "3", "8", "8", "0">>, <<"-", "0", ".", "3", "8", "2", "6", "8", "3">>>>,
       <<<<"0", ".", "8", "6", "6", "0", "2", "5">>, <<"-", "0", ".", "5", "0", "0", "0", "0", "0">>>>,
       <<<<"0", ".", "7", "9", "3", "3", "5", "3">>, <<"-", "0", ".", "6", "0", "8", "7", "6", "1">>>>,
       <<<<"0", ".", "7", "0", "7", "1", "0", "7">>, <<"-", "0", ".", "7", "0", "7", "1", "0", "7">>>>,
       <<<<"0", ".", "6", "0", "8", "7", "6", "1">>, <<"-", "0", ".", "7", "9", "3", "3", "5", "3">>>>,
       <<<<"0", ".", "5", "0", "0", "0", "0", "0">>, <<"-", "0", ".", "8", "6", "6", "0", "2", "5">>>>,
       <<<<"0", ".", "3", "8", "2", "6", "8", "3">>, <<"-", "0", ".", "9", "2", "3", "8", "8", "0">>>>,
       <<<<"0", ".", "2", "5", "8", "8", "1", "9">>, <<"-", "0", ".", "9", "6", "5", "9", "2", "6">>>>,
       <<<<"0", ".", "1", "3", "0", "5", "2", "6">>, <<"-", "0", ".", "9", "9", "1", "4", "4", "5">>>>,
       <<<<"0", ".", "0", "0", "0", "0", "0", "0">>, <<"-", "1", ".", "0", "0", "0", "0", "0", "0">>>>,
       <<<<"-", "0", ".", "1", "3", "0", "5", "2", "6">>, <<"-", "0", ".", "9", "9", "1", "4", "4", "5">>>>,
       <<<<"-", "0", ".", "2", "5", "8", "8", "1", "9">>, <<"-", "0", ".", "9", "6", "5", "9", "2", "6">>>>,
       <<<<"-", "0", ".", "3", "8", "2", "6", "8", "3">>, <<"-", "0", ".", "9", "2", "3", "8", "8", "0">>>>,
       <<<<"-", "0", ".", "5", "0", "0", "0", "0", "0">>, <<"-", "0", ".", "8", "6", "6", "0", "2", "5">>>>,
       <<<<"-", "0", ".", "6", "0", "8", "7", "6", "1">>, <<"-", "0", ".", "7", "9", "3", "3", "5", "3">>>>,
       <<<<"-", "0", ".", "7", "0", "7", "1", "0", "7">>, <<"-", "0", ".", "7", "0", "7", "1", "0", "7">>>>,
       <<<<"-", "0", ".", "7", "9", "3", "3", "5", "3">>, <<"-", "0", ".", "6", "0", "8", "7", "6", "1">>>>,
       <<<<"-", "0", ".", "8", "6", "6", "0", "2", "5">>, <<"-", "0", ".", "5", "0", "0", "0", "0", "0">>>>,
       <<<<"-", "0", ".", "9", "2", "3", "8", "8", "0">>, <<"-", "0", ".", "3", "8", "2", "6", "8", "3">>>>,
       <<<<"-", "0", ".", "9", "6", "5", "9", "2", "6">>, <<"-", "0", ".", "2", "5", "8", "8", "1", "9">>>>,
       <<<<"-", "0", ".", "9", "9", "1", "4", "4", "5">>, <<"-", "0", ".", "1", "3", "0", "5", "2", "6">>>>,
       <<<<"-", "1", ".", "0", "0", "0", "0", "0", "0">>, <<"-", "0", ".", "0", "0", "0", "0", "0", "0">>>>,
       <<<<"-", "0", ".", "9", "9", "1", "4", "4", "5">>, <<"0", ".", "1", "3", "0", "5", "2", "6">>>>,
       <<<<"-", "0", ".", "9", "6", "5", "9", "2", "6">>, <<"0", ".", "2", "5", "8", "8", "1", "9">>>>,
       <<<<"-", "0", ".", "9", "2", "3", "8", "8", "0">>, <<"0", ".", "3", "8", "2", "6", "8", "3">>>>,
       <<<<"-", "0", ".", "8", "6", "6", "0", "2", "5">>, <<"0", ".", "5", "0", "0", "0", "0", "0">>>>,
       <<<<"-", "0", ".", "7", "9", "3", "3", "5", "3">>, <<"0", ".", "6", "0", "8", "7", "6", "1">>>>,
       <<<<"-", "0", ".", "7", "0", "7", "1", "0", "7">>, <<"0", ".", "7", "0", "7", "1", "0", "7">>>>,
       <<<<"-", "0", ".", "6", "0", "8", "7", "6", "1">>, <<"0", ".", "7", "9", "3", "3", "5", "3">>>>,
       <<<<"-", "0", ".", "5", "0", "0", "0", "0", "0">>, <<"0", ".", "8", "6", "6", "0", "2", "5">>>>,
       <<<<"-", "0", ".", "3", "8", "2", "6", "8", "3">>, <<"0", ".", "9", "2", "3", "8", "8", "0">>>>,
       <<<<"-", "0", ".", "2", "5", "8", "8", "1", "9">>, <<"0", ".", "9", "6", "5", "9", "2", "6">>>>,
       <<<<"-", "0", ".", "1", "3", "0", "5", "2", "6">>, <<"0", ".", "9", "9", "1", "4", "4", "5">>>>
    >>

\* the cells for a time of day given in minutes
SinCos(minutes) == SinCosCells[CHOOSE k \in 1..Len(SinCosCells) : (k - 1) * 30 = minutes]

TransformHeaderRow(h, di, hi) ==
    Concat([i \in 1..Len(h) |->
        IF i - 1 = di THEN << <<"f", "_", "d", "a", "y">>, <<"f", "_", "m", "o", "n", "t", "h">>,
                              <<"f", "_", "y", "e", "a", "r">> >>
        ELSE IF i - 1 = hi THEN << <<"h", "o", "u", "r", "_", "s", "i", "n">>,
                                   <<"h", "o", "u", "r", "_", "c", "o", "s">> >>
        ELSE <<h[i]>>])

\* transform_file: one output row
TransformedRow(row, h, di, hi) ==
    LET padded == Pad(row, h)
    IN  Concat([i \in 1..Len(padded) |->
            IF i - 1 = di THEN parse_date_to_dmy(Strip(padded[i]))
            ELSE IF i - 1 = hi
                 THEN LET frac == parse_time_to_fraction(Strip(padded[i]))
                      IN  IF frac.none THEN << <<>>, <<>> >>
                          ELSE SinCos(CHOOSE minutes \in {frac.minutes} : ~frac.raised)
            ELSE <<padded[i]>>])

(***************************************************************************)
(* The parsing functions, called on their own                              *)
(***************************************************************************)
TwoDigits(n) == <<Digits[(n \div 10) + 1], Digits[(n % 10) + 1]>>

FourDigits(n) == TwoDigits(n \div 100) \o TwoDigits(n % 100)

\* a calendar date as the left file writes it, YYYY/MM/DD
TextYMD(y, m, d) == FourDigits(y) \o <<"/">> \o TwoDigits(m) \o <<"/">> \o TwoDigits(d)

\* a calendar date as the right file writes it, DD/MM/YYYY
TextDMY(y, m, d) == TwoDigits(d) \o <<"/">> \o TwoDigits(m) \o <<"/">> \o FourDigits(y)

\* an hour token HHMM: 3 digits when pad = 0 (HH < 10), a colon when colon = 1,
\* followed by ' UTC' (utc = 1) or 'UTC' (utc = 2)
TextHHMM(HH, MM, pad, colon, utc) ==
    (IF pad = 0 THEN <<Digits[HH + 1]>> ELSE TwoDigits(HH))
    \o (IF colon = 1 THEN <<":">> ELSE <<>>)
    \o TwoDigits(MM)
    \o (CASE utc = 0 -> <<>> [] utc = 1 -> <<" ">> \o sUTC [] utc = 2 -> sUTC)

\* a timestamp in the i-th format of RoundFormats
TextTimestamp(y, m, d, H, M, S, i) ==
    FourDigits(y) \o <<"-">> \o TwoDigits(m) \o <<"-">> \o TwoDigits(d)
    \o (IF i \in {1, 2} THEN <<" ">> ELSE <<"T">>)
    \o TwoDigits(H) \o <<":">> \o TwoDigits(M)
    \o (IF i \in {1, 3} THEN <<":">> \o TwoDigits(S) ELSE <<>>)

\* strftime's %Y is the C library's: glibc writes the year without leading zeros,
\* other libraries write four digits
YearText(y, padded) == IF padded THEN FourDigits(y) ELSE IntToStr(y)

\* parsed_dt.strftime("%d/%m/%Y")
strftime_date(t, padded) ==
    TwoDigits(t[3]) \o <<"/">> \o TwoDigits(t[2]) \o <<"/">> \o YearText(t[1], padded)

\* parsed_dt.strftime("%H%M") + " UTC"
strftime_time(t) == TwoDigits(t[4]) \o TwoDigits(t[5]) \o <<" ">> \o sUTC

Cells(date_str, time_str) == [tag |-> "cells", v |-> <<date_str, time_str>>, err |-> ""]

\* the two cells remove_columns writes in place of a row's data_pas cell; an
\* exception of the rounding leaves the function
DataPasCells(cell, padded) ==
    LET original == Strip(cell)
        parsed_dt == IF original # <<>> THEN round_datetime_string_to_hour(original) ELSE None
    IN  CASE parsed_dt.tag = "raise" -> parsed_dt
          [] parsed_dt.tag = "datetime" ->
                Cells(strftime_date(parsed_dt.v, padded), strftime_time(parsed_dt.v))
          [] OTHER -> Cells(original, <<>>)

KeyDates == { <<2024, 1, 2>>, <<2024, 2, 29>>, <<2023, 12, 31>> }

Hours == 0..23

Minutes == 0..59

\* a valid date and an hour token: the date in both files' formats, the token
HourKeyInput(dt, HH, MM, pad, colon, utc) ==
    [kind |-> "hour_key",
     strs |-> <<TextYMD(dt[1], dt[2], dt[3]), TextDMY(dt[1], dt[2], dt[3]),
                TextHHMM(HH, MM, pad, colon, utc)>>,
     src |-> <<dt[1], dt[2], dt[3], HH, MM, pad, colon, utc>>]

RoundDates == { <<2024, 1, 2>>, <<2024, 2, 29>>, <<2023, 2, 28>>, <<2024, 4, 30>>, <<2024, 12, 31>> }

RoundHours == {0, 6, 22, 23}

RoundMinutes == {0, 1, 29, 30, 31, 59}

RoundSeconds == {0, 29, 30, 59}

\* a timestamp in the i-th format
RoundInput(dt, H, M, S, i) ==
    [kind |-> "timestamp",
     strs |-> <<TextTimestamp(dt[1], dt[2], dt[3], H, M, S, i)>>,
     src |-> <<dt[1], dt[2], dt[3], H, M, S>>]

\* strings none of the formats accepts
RoundTexts ==
    { <<>>,
      <<"2", "0", "2", "4", "/", "0", "1", "/", "0", "2", " ", "0", "6", ":", "3", "0">>,
      <<"2", "0", "2", "4", "-", "0", "1", "-", "0", "2", " ", "0", "6", ":", "3", "0", ":", "6", "0">>,
      <<"2", "0", "2", "4", "-", "0", "2", "-", "3", "0", " ", "0", "6", ":", "3", "0">>,
      <<"2", "0", "2", "4", "-", "0", "1", "-", "0", "2">> }

\* dates at the ends of months and years, and in years of fewer than four digits
PrunerDates ==
    { <<1, 1, 1>>, <<999, 6, 5>>, <<999, 12, 31>>, <<1000, 1, 1>>, <<2023, 2, 28>>,
      <<2024, 2, 29>>, <<2024, 12, 31>>, <<9998, 12, 31>>, <<9999, 12, 31>> }

PrunerHours == {0, 22, 23}

PrunerMinutes == {0, 29, 30, 59}

PrunerSeconds == {0, 30}

\* a data_pas cell: a timestamp in the i-th format, after the blanks of pre
DataPasInput(dt, H, M, S, i, pre) ==
    [kind |-> "data_pas",
     strs |-> <<pre \o TextTimestamp(dt[1], dt[2], dt[3], H, M, S, i)>>,
     src |-> <<dt[1], dt[2], dt[3], H, M, S>>]

TimeHours == {0, 4, 9, 17, 23, 24, 25, 47, 99, 123}

TimeMinutes == {0, 7, 30, 59, 60, 61, 99}

\* what stands before and after the first digit run of a time cell
TimePrefixes == { <<>>, <<" ">>, <<"U", "T", "C", " ">>, <<"-">> }

TimeSuffixes == { <<>>, <<" ", "U", "T", "C">>, <<":", "3", "0">>, <<".", "5">> }

\* a time cell whose first digit run is H written with pad leading zeros, followed
\* by MM in two digits when long
TimeInput(H, MM, pad, long, pre, post) ==
    [kind |-> "time",
     strs |-> <<pre \o [i \in 1..pad |-> "0"] \o IntToStr(H)
                \o (IF long THEN TwoDigits(MM) ELSE <<>>) \o post>>,
     src |-> <<H, MM>>]

\* cells without a digit
NoTimeTexts == { <<>>, <<" ">>, <<"U", "T", "C">>, <<":">>, <<"a", "b", "c">> }

\* a time cell that is one run of n digits
LongTimeInput(n) == [kind |-> "long_time", strs |-> <<[i \in 1..n |-> "1"]>>, src |-> <<n>>]

\* categories whose sanitized forms coincide (a), are empty (bioma) or look like a
\* suffixed name (a_1)
NamingValues ==
    { <<"a">>, <<"a", "!">>, <<"a", "?">>, <<"a", " ", "1">>, <<"a", "_", "1">>, <<"?", "?">>,
      <<"b", "i", "o", "m", "a">> }

MaxCategories == 4

\* an ordered list of distinct categories
CategoryLists ==
    { cats \in SeqsUpTo(NamingValues, MaxCategories) :
        \A i, j \in 1..Len(cats) : i # j => cats[i] # cats[j] }

FnInit ==
    /\ \/ \E cats \in CategoryLists : input = [kind |-> "categories", strs |-> cats, src |-> <<>>]
       \/ \E H \in TimeHours, MM \in TimeMinutes, pad \in {0, 1}, long \in BOOLEAN,
               pre \in TimePrefixes, post \in TimeSuffixes :
               /\ ~long => MM = 0 /\ Len(IntToStr(H)) + pad <= 2
               /\ input = TimeInput(H, MM, pad, long, pre, post)
       \/ \E t \in NoTimeTexts : input = [kind |-> "no_time", strs |-> <<t>>, src |-> <<>>]
       \/ input = LongTimeInput(MaxStrDigits + 3)
       \/ \E dt \in KeyDates, HH \in Hours, MM \in Minutes, pad \in {0, 1},
               colon \in {0, 1}, utc \in {0, 1, 2} :
               /\ pad = 0 => HH < 10
               /\ input = HourKeyInput(dt, HH, MM, pad, colon, utc)
       \/ \E dt \in RoundDates, H \in RoundHours, M \in RoundMinutes, S \in RoundSeconds,
               i \in 1..Len(RoundFormats) :
               /\ i \in {2, 4} => S = 0
               /\ input = RoundInput(dt, H, M, S, i)
       \/ \E t \in RoundTexts : input = [kind |-> "text", strs |-> <<t>>, src |-> <<>>]
       \/ \E dt \in PrunerDates, H \in PrunerHours, M \in PrunerMinutes, S \in PrunerSeconds,
               i \in 1..Len(RoundFormats), pre \in { <<>>, <<" ">> } :
               /\ i \in {2, 4} => S = 0
               /\ input = DataPasInput(dt, H, M, S, i, pre)
    /\ calls = <<>>
    /\ MergeIdle /\ IpIdle

Called(f) == f \in DOMAIN calls

Call_parse_inmet_datetime ==
    /\ input.kind = "hour_key"
    /\ ~Called("parse_inmet_datetime")
    /\ calls' = calls @@ ("parse_inmet_datetime" :> parse_inmet_datetime(input.strs[1], input.strs[3]))
    /\ UNCHANGED <<input, mergeVars, ipVars>>

Call_parse_focos_datetime ==
    /\ input.kind = "hour_key"
    /\ ~Called("parse_focos_datetime")
    /\ calls' = calls @@ ("parse_focos_datetime" :> parse_focos_datetime(input.strs[2], input.strs[3]))
    /\ UNCHANGED <<input, mergeVars, ipVars>>

Call_round_datetime_string_to_hour ==
    /\ input.kind \in {"timestamp", "text"}
    /\ ~Called("_round_datetime_string_to_hour")
    /\ calls' = calls @@ ("_round_datetime_string_to_hour" :> round_datetime_string_to_hour(input.strs[1]))
    /\ UNCHANGED <<input, mergeVars, ipVars>>

\* remove_columns on a row's data_pas cell
Call_remove_columns ==
    /\ input.kind \in {"data_pas", "text"}
    /\ ~Called("remove_columns")
    /\ \E padded \in BOOLEAN :
          calls' = calls @@ ("remove_columns" :> DataPasCells(input.strs[1], padded))
    /\ UNCHANGED <<input, mergeVars, ipVars>>

\* the joiner's parse_focos_datetime on the two cells remove_columns wrote
Call_parse_focos_datetime_on_cells ==
    /\ Called("remove_columns")
    /\ calls["remove_columns"].tag = "cells"
    /\ ~Called("parse_focos_datetime")
    /\ \E cells \in {calls["remove_columns"].v} :
          calls' = calls @@ ("parse_focos_datetime" :> parse_focos_datetime(cells[1], cells[2]))
    /\ UNCHANGED <<input, mergeVars, ipVars>>

Call_parse_time_to_fraction ==
    /\ input.kind \in {"time", "no_time", "long_time"}
    /\ ~Called("parse_time_to_fraction")
    /\ calls' = calls @@ ("parse_time_to_fraction" :> parse_time_to_fraction(input.strs[1]))
    /\ UNCHANGED <<input, mergeVars, ipVars>>

\* one_hot_encode's loop that names the columns
Call_sanitized ==
    /\ input.kind = "categories"
    /\ ~Called("sanitized")
    /\ calls' = calls @@ ("sanitized" :> SanitizedPairs(input.strs, <<>>))
    /\ UNCHANGED <<input, mergeVars, ipVars>>

FnNext ==
    \/ Call_sanitized
    \/ Call_parse_time_to_fraction
    \/ Call_parse_inmet_datetime
    \/ Call_parse_focos_datetime
    \/ Call_round_datetime_string_to_hour
    \/ Call_remove_columns
    \/ Call_parse_focos_datetime_on_cells

SpecFn == FnInit /\ [][FnNext]_vars

\* C4: for a parseable timestamp the result has minute and second zero; it is the
\* input's hour plus one if and only if the input's minute is >= 30, and with a
\* minute < 30 it keeps the input's hour, whatever the seconds.
C4_RoundsUpFromMinute30 ==
    (input.kind = "timestamp" /\ Called("_round_datetime_string_to_hour")) =>
        LET r == calls["_round_datetime_string_to_hour"]
            y == input.src[1]  m == input.src[2]  d == input.src[3]
            H == input.src[4]  M == input.src[5]
        IN  /\ r.tag = "datetime"
            /\ r.v[5] = 0 /\ r.v[6] = 0
            /\ M >= 30 => r = PlusOneHour(<<y, m, d, H, 0, 0>>)
            /\ M < 30 => r = DateTime(y, m, d, H, 0, 0)

\* C7: for a valid date and an hour token HHMM (3 or 4 digits, with or without a
\* colon and a 'UTC' marker), parse_inmet_datetime and parse_focos_datetime both
\* return the key (year, month, day, HH), whatever MM is.
C7_FloorHourKey ==
    input.kind = "hour_key" =>
        \A f \in (DOMAIN calls) \cap {"parse_inmet_datetime", "parse_focos_datetime"} :
            calls[f] = DateTime(input.src[1], input.src[2], input.src[3], input.src[4], 0, 0)

\* both parsers were called on a 3-digit token with a colon, minutes 59 and 'UTC'
C7_Witness ==
    /\ input.kind = "hour_key"
    /\ Called("parse_inmet_datetime") /\ Called("parse_focos_datetime")
    /\ calls["parse_inmet_datetime"] = calls["parse_focos_datetime"]
    /\ calls["parse_inmet_datetime"].tag = "datetime"
    /\ input.src[5] = 59 /\ input.src[6] = 0 /\ input.src[7] = 1 /\ input.src[8] = 1


(***************************************************************************)
(* The csv module, as the in-place components use it                       *)
(*                                                                         *)
(* A file is its text, a sequence of characters with its line ends.  The   *)
(* texts of the model hold no quote character: csv.Sniffer's search for    *)
(* quoted fields then finds nothing and the dialect comes from             *)
(* _guess_delimiter, on a sample of at most ten lines (one chunk).         *)
(***************************************************************************)
\* the 7-bit characters of the model, in code point order
Ascii ==
    <<"\t", "\n", "\r", " ", "!", "+", ",", "-", ".", "/",
      "0", "1", "2", "3", "4", "5", "6", "7", "8", "9", ":", ";", "?",
      "A", "B", "C", "D", "E", "F", "G", "H", "I", "J", "K", "L", "M", "N",
      "O", "P", "Q", "R", "S", "T", "U", "V", "W", "X", "Y", "Z", "_",
      "a", "b", "c", "d", "e", "f", "g", "h", "i", "j", "k", "l", "m", "n",
      "o", "p", "q", "r", "s", "t", "u", "v", "w", "x", "y", "z">>

\* str.split(c)
RECURSIVE SplitOn(_, _)
SplitOn(s, c) ==
    LET i == FirstOf(s, {c})
    IN  IF i = 0 THEN <<s>>
        ELSE <<SubSeq(s, 1, i - 1)>> \o SplitOn(SubSeq(s, i + 1, Len(s)), c)

\* str.count(sub): the occurrences that do not overlap, from the left
RECURSIVE CountSub(_, _)
CountSub(s, sub) ==
    LET at(i) == SubSeq(s, i, i + Len(sub) - 1) = sub
        starts == { i \in 1..(Len(s) - Len(sub) + 1) : at(i) }
        i == CHOOSE i \in starts : \A j \in starts : i <= j
    IN  IF starts = {} THEN 0
        ELSE 1 + CountSub(SubSeq(s, i + Len(sub), Len(s)), sub)

\* the order in which Sniffer.preferred lists its delimiters
preferred == <<",", "\t", ";", " ", ":">>

\* `try: dialect = csv.Sniffer().sniff(sample)  except Exception: dialect = csv.excel`
\* for a sample without quote characters and of at most ten lines, which
\* _guess_delimiter reads as one chunk: a character is then a candidate at
\* consistency 1.0 or never, that is, when every line holds it equally often
sniff(sample) ==
    LET data == SelectSeq(SplitOn(sample, "\n"), LAMBDA l : l # <<>>)
        total == Len(data)
        oneChunk == CHOOSE ok \in {TRUE} :
                        total <= 10 /\ \A i \in 1..Len(sample) : sample[i] # "\""
        \* line.count(char)
        freq(i, k) == Cardinality({ j \in 1..Len(data[k]) : data[k][j] = Ascii[i] })
        delims == { i \in 1..Len(Ascii) :
                      /\ oneChunk /\ total > 0
                      /\ \E j \in 1..Len(data[1]) : data[1][j] = Ascii[i]
                      /\ \A k \in 2..total : freq(i, k) = freq(i, 1) }
        \* items.sort(); delim = items[-1][1]
        last == CHOOSE i \in delims : \A j \in delims :
                    \/ freq(j, 1) < freq(i, 1)
                    \/ freq(j, 1) = freq(i, 1) /\ j <= i
        isPreferred(p) == \E i \in delims : Ascii[i] = preferred[p]
        delim == IF Cardinality(delims) > 1 /\ \E p \in 1..Len(preferred) : isPreferred(p)
                 THEN preferred[CHOOSE p \in 1..Len(preferred) :
                                    isPreferred(p) /\ \A q \in 1..(p - 1) : ~isPreferred(q)]
                 ELSE Ascii[last]
    IN  IF delims = {} THEN excel
        ELSE [delimiter |-> delim,
              skipinitialspace |->
                  CountSub(data[1], <<delim>>) = CountSub(data[1], <<delim, " ">>),
              doublequote |-> FALSE]

\* one call of _csv's parse_process_char under dialect dl on character c, or on the end of the line
\* (c = "EOL"); st is the parser: its state, the field being read, the fields read
parse_process_char(st, c, dl) ==
    LET newline == c \in {"\n", "\r", "EOL"}
        afterLine == IF c = "EOL" THEN "START_RECORD" ELSE "EAT_CRNL"
        save_field == Append(st.fields, st.field)
        add_char == st.field \o <<c>>
        start_field ==
            IF newline THEN [state |-> afterLine, field |-> <<>>, fields |-> save_field]
            ELSE IF c = "\"" THEN [st EXCEPT !.state = "IN_QUOTED_FIELD"]
            ELSE IF c = " " /\ dl.skipinitialspace THEN [st EXCEPT !.state = "START_FIELD"]
            ELSE IF c = dl.delimiter
                 THEN [state |-> "START_FIELD", field |-> <<>>, fields |-> save_field]
            ELSE [st EXCEPT !.state = "IN_FIELD", !.field = add_char]
    IN  CASE st.state = "START_RECORD" ->
                IF c = "EOL" THEN st
                ELSE IF newline THEN [st EXCEPT !.state = "EAT_CRNL"]
                ELSE start_field
          [] st.state = "START_FIELD" -> start_field
          [] st.state = "IN_FIELD" ->
                IF newline THEN [state |-> afterLine, field |-> <<>>, fields |-> save_field]
                ELSE IF c = dl.delimiter
                     THEN [state |-> "START_FIELD", field |-> <<>>, fields |-> save_field]
                ELSE [st EXCEPT !.field = add_char]
          [] st.state = "IN_QUOTED_FIELD" ->
                IF c = "EOL" THEN st
                ELSE IF c = "\""
                     THEN [st EXCEPT !.state = IF dl.doublequote
                                               THEN "QUOTE_IN_QUOTED_FIELD" ELSE "IN_FIELD"]
                ELSE [st EXCEPT !.field = add_char]
          [] st.state = "QUOTE_IN_QUOTED_FIELD" ->
                IF c = "\"" THEN [st EXCEPT !.state = "IN_QUOTED_FIELD", !.field = add_char]
                ELSE IF c = dl.delimiter
                     THEN [state |-> "START_FIELD", field |-> <<>>, fields |-> save_field]
                ELSE IF newline
                     THEN [state |-> afterLine, field |-> <<>>, fields |-> save_field]
                ELSE [st EXCEPT !.state = "IN_FIELD", !.field = add_char]
          [] st.state = "EAT_CRNL" ->
                IF c = "EOL" THEN [st EXCEPT !.state = "START_RECORD"] ELSE st

\* the lines `for line in fh` yields for a file opened with newline='': each ends
\* with its "\n", "\r" or "\r\n", the last one possibly with none
RECURSIVE Lines(_, _)
Lines(text, i) ==
    IF i > Len(text) THEN <<>>
    ELSE LET ends(e) == \/ e = Len(text)
                        \/ text[e] = "\n"
                        \/ text[e] = "\r" /\ text[e + 1] # "\n"
             e == CHOOSE e \in i..Len(text) : ends(e) /\ \A j \in i..(e - 1) : ~ends(j)
         IN  <<SubSeq(text, i, e)>> \o Lines(text, e + 1)

\* Reader_iternext's inner loop on the characters a..b of the line, one after the
\* other: the span is halved, and the parser after the first half is computed
\* before the second half starts
RECURSIVE parse_chars(_, _, _, _, _)
parse_chars(st, line, a, b, dl) ==
    IF a > b THEN st
    ELSE IF a = b THEN parse_process_char(st, line[a], dl)
    ELSE LET m == (a + b) \div 2
         IN  CHOOSE r \in { parse_chars(half, line, m + 1, b, dl) :
                            half \in {parse_chars(st, line, a, m, dl)} } : TRUE

\* the line goes to the parser, then the end of the line
parse_line(st, line, dl) ==
    parse_process_char(parse_chars(st, line, 1, Len(line), dl), "EOL", dl)

\* the parser before a record
parse_reset == [state |-> "START_RECORD", field |-> <<>>, fields |-> <<>>]

\* the rows csv.reader yields for the lines from the k-th on: a row is complete
\* when a line leaves the parser at the start of a record; at the end of the file
\* a field being read makes a last row
RECURSIVE reader(_, _, _, _)
reader(lines, k, st, dl) ==
    IF k > Len(lines)
    THEN IF st.field # <<>> \/ st.state = "IN_QUOTED_FIELD"
         THEN <<Append(st.fields, st.field)>> ELSE <<>>
    ELSE LET st1 == parse_line(st, lines[k], dl)
         IN  IF st1.state = "START_RECORD"
             THEN <<st1.fields>> \o reader(lines, k + 1, parse_reset, dl)
             ELSE reader(lines, k + 1, st1, dl)

\* csv.reader over the whole text
Rows(text, dl) == reader(Lines(text, 1), 1, parse_reset, dl)

\* the record writer.writerow(row) writes under dialect dl: fields that hold the delimiter, the
\* quote character or a line end are quoted, as is a single empty field
Record(row, dl) ==
    LET special == {dl.delimiter, "\"", "\r", "\n"}
        quoted(cell) == \E i \in 1..Len(cell) : cell[i] \in special
        field(cell) == IF quoted(cell) \/ row = << <<>> >>
                       THEN <<"\"">> \o cell \o <<"\"">> ELSE cell
    IN  Join([i \in 1..Len(row) |-> field(row[i])], dl.delimiter) \o <<"\r", "\n">>

(***************************************************************************)
(* The in-place components: files                                          *)
(*                                                                         *)
(* A file is its text.  A component sniffs the dialect from the text of    *)
(* its input, reads the rows with csv.reader and writes the rows of its    *)
(* output with csv.writer, both under that dialect.                        *)
(***************************************************************************)
EmptyFs == [p \in {} |-> <<>>]

Put(f, p, text) == [q \in (DOMAIN f) \cup {p} |-> IF q = p THEN text ELSE f[q]]

\* os.remove
Remove(f, p) == [q \in (DOMAIN f) \ {p} |-> f[q]]

\* shutil.copy2
copy2(f, src, dst) == Put(f, dst, f[src])

\* shutil.move
move(f, src, dst) == Put(Remove(f, src), dst, f[src])

\* os.path.dirname
Dirname(p) ==
    LET last == CHOOSE i \in 1..Len(p) : p[i] = "/" /\ \A j \in (i + 1)..Len(p) : p[j] # "/"
    IN  SubSeq(p, 1, last - 1)

sDotCsv == <<".", "c", "s", "v">>
sDotBak == <<".", "b", "a", "k">>

Components == {"process", "remove_empty_header_columns", "one_hot_encode", "transform_file"}

\* the prefix each component gives mkstemp
TempPrefix(c) ==
    CASE c = "process" -> <<"r", "e", "p", "l", "a", "c", "e", "_", "m", "i", "n", "u", "s", "9", "9", "9", "_">>
      [] c = "remove_empty_header_columns" -> <<"r", "e", "m", "o", "v", "e", "_", "e", "m", "p", "t", "y", "_", "c", "o", "l", "_">>
      [] c = "one_hot_encode" -> <<"o", "n", "e", "h", "o", "t", "_", "b", "i", "o", "m", "a", "_">>
      [] c = "transform_file" -> <<"t", "r", "a", "n", "s", "f", "o", "r", "m", "_", "d", "t", "_">>

\* the suffix of the output of a run that is not in place
OutSuffix(c) ==
    CASE c = "process" -> <<".", "r", "e", "p", "l", "a", "c", "e", "d", ".", "c", "s", "v">>
      [] c = "remove_empty_header_columns" -> <<".", "c", "l", "e", "a", "n", "e", "d", ".", "c", "s", "v">>
      [] c = "one_hot_encode" -> <<".", "o", "n", "e", "h", "o", "t", ".", "c", "s", "v">>
      [] c = "transform_file" -> <<".", "d", "t", ".", "c", "s", "v">>

\* tempfile.mkstemp: a new file in dir whose name is not taken; the random part of
\* the name is the least number that makes the name new
mkstemp(prefix, suffix, dir, existing) ==
    LET name(n) == dir \o <<"/">> \o prefix \o IntToStr(n) \o suffix
        n0 == CHOOSE n \in 0..Cardinality(existing) :
                  name(n) \notin existing /\ \A m \in 0..(n - 1) : name(m) \in existing
    IN  name(n0)

backup_path == input_path \o sDotBak

out_name == Replace(input_path, sDotCsv, OutSuffix(comp))

\* the value the function returns after the move
Returned ==
    CASE comp = "process" -> replacements
      [] comp = "remove_empty_header_columns" -> Cardinality(remove_idxs)
      [] comp = "one_hot_encode" -> Len(sanitized)
      [] comp = "transform_file" -> 1

(***************************************************************************)
(* The in-place components: the input files of the model                   *)
(***************************************************************************)
MaxFileRows == 3

\* how many times a component is run on its file
MaxRuns == 3

PathCsv == <<"/", "d", "/", "t", ".", "c", "s", "v">>
PathNoCsv == <<"/", "d", "/", "t">>
InputPaths == {PathCsv, PathNoCsv}

s_f_data == <<"f", "_", "d", "a", "t", "a">>
s_f_hora_utc == <<"f", "_", "h", "o", "r", "a", "_", "u", "t", "c">>
sCerrado == <<"C", "e", "r", "r", "a", "d", "o">>
sMata == <<"M", "a", "t", "a">>

StdHeader(c) ==
    CASE c = "process" -> <<<<"a">>, <<"b">>>>
      [] c = "remove_empty_header_columns" -> <<<<"a">>, <<>>, <<"b">>>>
      [] c = "one_hot_encode" -> <<<<"i", "d">>, s_f_bioma>>
      [] c = "transform_file" -> <<s_f_data, s_f_hora_utc, <<"x">>>>

Headers(c) ==
    CASE c = "process" -> {<<<<"a">>, <<"-", "9", "9", "9">>>>}
      [] c = "remove_empty_header_columns" ->
            {<<<<"a">>, <<"b">>, <<"c">>>>, <<<<"U", "n", "n", "a", "m", "e", "d", ":", " ", "0">>, <<"a">>, <<"b">>>>,
             <<<<" ">>, <<"a">>, <<"U", "N", "N", "A", "M", "E", "D">>>>, <<<<"a">>, <<"u", "n", " ", "n", "a", "m", "e", "d">>, <<"x">>>>}
      [] c = "one_hot_encode" ->
            {<<<<"F", "_", "B", "i", "o", "m", "a">>, <<"i", "d">>>>, <<<<"i", "d">>, <<"x">>>>, <<<<"i", "d">>, s_f_bioma, <<"f", "r", "p">>>>,
             <<<<"F", "_", "B", "I", "O", "M", "A">>, s_f_bioma>>}
      [] c = "transform_file" ->
            {<<<<"x">>, <<"F", "_", "D", "A", "T", "A">>>>, <<<<"x">>, <<"y">>>>, <<<<"F", "_", "H", "o", "r", "a", "_", "U", "T", "C">>, <<"x">>>>}

RowKinds(c) ==
    CASE c = "process" ->
            {<<<<"-", "9", "9", "9">>, <<"5">>>>, <<<<"-", "9", "9", "9", ".", "0">>, <<"a", "b", "c">>>>, <<<<"-", "9", "9", "9", ".", "5">>, <<>>>>,
             <<<<" ", "-", "9", "9", "9", " ">>, <<"9", "9", "9">>>>, <<<<"-", "9", "9", "9", "0">>>>, <<<<"-", "9", "9", "9", ".", "0", "0">>, <<"-", "9", ".", "9", "9", "e", "2">>>>,
             <<<<"-", "9", "_", "9", "9">>, <<"-", "-", "9", "9", "9">>, <<"-", "0", "9", "9", "9">>>>,
             <<<<"+", "9", "9", "9">>, <<"-", " ", "9", "9", "9">>, <<"\t", "-", "9", "9", "9", ".">>, <<" ", " ">>>>}
      [] c = "remove_empty_header_columns" ->
            {<<<<"1">>, <<"2">>, <<"3">>>>, <<<<"1">>>>, <<<<"1">>, <<"2">>, <<"3">>, <<"4">>>>, <<>>}
      [] c = "one_hot_encode" ->
            {<<<<"7">>, sCerrado>>, <<<<"7">>, sMata>>, <<<<"7">>, <<>>>>, <<<<"7">>, <<" ", "M", "a", "t", "a", " ">>>>,
             <<<<"7">>>>, <<<<"7">>, <<"M", "a", "t", "a", " ", "A", "t", "l", "a^", "n", "t", "i", "c", "a">>, <<"9">>>>}
      [] c = "transform_file" ->
            {<<<<"0", "2", "/", "0", "1", "/", "2", "0", "2", "4">>, <<"0", "6", "3", "0", " ", "U", "T", "C">>, <<"1">>>>, <<<<"2", "-", "1", "-", "2", "4">>, <<"4">>, <<"1">>>>,
             <<<<"0", "2", "/", "0", "1", "/", "2", "0", "2", "4">>>>, <<<<"a", "b", "c">>, <<"2", "5", "0", "0">>, <<"1">>, <<"e", "x", "t", "r", "a">>>>}

StdRows(c) ==
    CASE c = "process" -> << <<<<"-", "9", "9", "9">>, <<"5">>>>, <<<<"7">>, <<"-", "9", "9", "9", ".", "0">>>> >>
      [] c = "remove_empty_header_columns" -> << <<<<"1">>, <<"2">>, <<"3">>>>, <<<<"4">>, <<"5">>>> >>
      [] c = "one_hot_encode" -> << <<sMata, sCerrado>>, <<sCerrado, sMata>> >>
      [] c = "transform_file" ->
            << <<<<"0", "2", "/", "0", "1", "/", "2", "0", "2", "4">>, <<"0", "6", "3", "0", " ", "U", "T", "C">>, <<"1">>>>, <<<<"1", "8", "0", "0">>, <<"3", "1", "/", "1", "2", "/", "9", "9">>>> >>

\* the encoder's example: column values Cerrado, Mata, Cerrado, '', ''
ExampleFile ==
    << <<<<"i", "d">>, s_f_bioma>>, <<<<"1">>, sCerrado>>, <<<<"2">>, sMata>>, <<<<"3">>, sCerrado>>,
       <<<<"4">>, <<>>>>, <<<<"5">>, <<>>>> >>

ExampleOutput ==
    << <<<<"i", "d">>, <<"b", "i", "o", "m", "a", "_", "C", "e", "r", "r", "a", "d", "o">>, <<"b", "i", "o", "m", "a", "_", "M", "a", "t", "a">>>>, <<<<"1">>, <<"1">>, <<"0">>>>,
       <<<<"2">>, <<"0">>, <<"1">>>>, <<<<"3">>, <<"1">>, <<"0">>>>, <<<<"4">>, <<"0">>, <<"0">>>>,
       <<<<"5">>, <<"0">>, <<"0">>>> >>

\* the text of a comma-separated file with these rows, its lines ended by eol
Text(rows, eol) == Concat([k \in 1..Len(rows) |-> Join(rows[k], ",") \o eol])

LF == <<"\n">>
CRLF == <<"\r", "\n">>

\* the state in which function c is called on a file holding content
Start(c, ip, path, content) ==
    /\ ipc = IF c = "one_hot_encode" THEN "collect" ELSE "mkstemp"
    /\ ierr = "" /\ comp = c /\ inplace = ip /\ input_path = path /\ temp_path = <<>>
    /\ fs = Put(EmptyFs, path, content) /\ orig = content /\ rd = 0 /\ temp_open = FALSE
    /\ replacements = 0 /\ header = <<>> /\ remove_idxs = {} /\ col_idx = -1
    /\ categories = <<>> /\ sanitized = <<>> /\ data_idx = -1 /\ hora_idx = -1 /\ ret = -1
    /\ runs = 1 /\ moves = <<>> /\ dialect = excel

IpInit ==
    /\ FnIdle /\ MergeIdle
    /\ \E c \in Components :
          \/ \E rows \in SeqsUpTo(RowKinds(c), MaxFileRows) :
                Start(c, TRUE, PathCsv, Text(<<StdHeader(c)>> \o rows, LF))
          \/ \E h \in Headers(c), ip \in BOOLEAN, path \in InputPaths :
                Start(c, ip, path, Text(<<h>> \o StdRows(c), CRLF))
          \/ \E h \in Headers(c) \cup {StdHeader(c)}, eol \in {LF, CRLF} :
                Start(c, TRUE, PathCsv, Text(<<h>>, eol))
          \/ \E ip \in BOOLEAN : Start(c, ip, PathCsv, <<>>)
          \/ c = "one_hot_encode" /\ Start(c, TRUE, PathCsv, Text(ExampleFile, LF))

(***************************************************************************)
(* The in-place components: steps                                          *)
(***************************************************************************)
\* variables no step of a run changes
ipArgs == <<comp, inplace, input_path, orig, runs>>

\* the rows `reader` yields
InputRows == Rows(fs[input_path], dialect)

\* the input has a row the reader has not yielded yet
MoreRows == rd < Len(InputRows)

NextRow == InputRows[rd + 1]

\* writerow with the record written at the head of the input file
writerow_over_input(row) == fs' = Put(fs, input_path, Record(row, dialect) \o fs[input_path])

\* writer.writerow(row) on the temporary file
writerow(row) == fs' = Put(fs, temp_path, fs[temp_path] \o Record(row, dialect))

\* one_hot_encode: the first pass and the naming of the columns
CollectCategories ==
    /\ ipc = "collect"
    /\ dialect' = sniff(fs[input_path])
    /\ \E content \in {Rows(fs[input_path], dialect')} :
           IF content = <<>> \/ FindColumn(content[1], s_f_bioma) = -1
           THEN /\ ipc' = "raised" /\ ierr' = "ValueError"
                /\ UNCHANGED <<header, col_idx, categories, sanitized, ret>>
           ELSE LET idx == FindColumn(content[1], s_f_bioma)
                    cats == CollectFrom(Tail(content), idx, <<>>)
                IN  /\ header' = content[1] /\ col_idx' = idx /\ categories' = cats
                    /\ ierr' = ierr
                    /\ IF cats = <<>>
                       THEN ipc' = "noop" /\ ret' = 0 /\ sanitized' = sanitized
                       ELSE ipc' = "mkstemp" /\ ret' = ret
                            /\ sanitized' = SanitizedPairs(cats, <<>>)
    /\ UNCHANGED <<ipArgs, moves, temp_path, fs, rd, temp_open, replacements, remove_idxs,
                   data_idx, hora_idx>>
    /\ UNCHANGED <<fnVars, mergeVars>>

\* tempfile.mkstemp and os.close: an empty temporary file beside the input
Mkstemp ==
    /\ ipc = "mkstemp"
    /\ temp_path' = mkstemp(TempPrefix(comp), sDotCsv, Dirname(input_path), DOMAIN fs)
    /\ fs' = Put(fs, temp_path', <<>>)
    /\ ipc' = "open"
    /\ UNCHANGED <<ipArgs, moves, ierr, rd, temp_open, replacements, header, remove_idxs, col_idx,
                   categories, sanitized, data_idx, hora_idx, ret>>
    /\ UNCHANGED dialect
    /\ UNCHANGED <<fnVars, mergeVars>>

\* process: the input opened for reading, the temporary file for writing
ProcessOpen ==
    /\ ipc = "open" /\ comp = "process"
    /\ dialect' = sniff(fs[input_path])
    /\ fs' = Put(fs, temp_path, <<>>)
    /\ temp_open' = TRUE /\ rd' = 0 /\ ipc' = "rows"
    /\ UNCHANGED <<ipArgs, moves, ierr, temp_path, replacements, header, remove_idxs, col_idx,
                   categories, sanitized, data_idx, hora_idx, ret>>
    /\ UNCHANGED <<fnVars, mergeVars>>

\* process: one turn of `for row in reader`
ProcessRow ==
    /\ ipc = "rows" /\ comp = "process" /\ MoreRows
    /\ \E row \in {NextRow} :
          /\ writerow(ReplacedRow(row))
          /\ replacements' = replacements + ReplacedCount(row)
    /\ rd' = rd + 1
    /\ UNCHANGED <<ipArgs, moves, ipc, ierr, temp_path, temp_open, header, remove_idxs, col_idx,
                   categories, sanitized, data_idx, hora_idx, ret>>
    /\ UNCHANGED dialect
    /\ UNCHANGED <<fnVars, mergeVars>>

\* remove_empty_header_columns: from opening the input to writing the new header
SanitizerHeader ==
    /\ ipc = "open" /\ comp = "remove_empty_header_columns"
    /\ dialect' = sniff(fs[input_path])
    /\ \E content \in {Rows(fs[input_path], dialect')} :
           IF content = <<>>
           THEN /\ ipc' = "raised" /\ ierr' = "ValueError"
                /\ UNCHANGED <<fs, rd, temp_open, header, remove_idxs, ret>>
           ELSE /\ header' = content[1]
                /\ remove_idxs' = RemoveIdxs(content[1])
                /\ ierr' = ierr
                /\ IF RemoveIdxs(content[1]) = {}
                   THEN /\ fs' = Remove(fs, temp_path)
                        /\ ret' = 0 /\ ipc' = "noop"
                        /\ UNCHANGED <<rd, temp_open>>
                   ELSE /\ fs' = Put(fs, temp_path,
                                     Record(Without(content[1], RemoveIdxs(content[1]), 0),
                                            dialect'))
                        /\ temp_open' = TRUE /\ rd' = 1 /\ ipc' = "rows"
                        /\ ret' = ret
    /\ UNCHANGED <<ipArgs, moves, temp_path, replacements, col_idx, categories, sanitized,
                   data_idx, hora_idx>>
    /\ UNCHANGED <<fnVars, mergeVars>>

\* remove_empty_header_columns: one turn of `for row in reader`
SanitizerRow ==
    /\ ipc = "rows" /\ comp = "remove_empty_header_columns" /\ MoreRows
    /\ \E row \in {NextRow} : writerow(SanitizedRow(row, header, remove_idxs))
    /\ rd' = rd + 1
    /\ UNCHANGED <<ipArgs, moves, ipc, ierr, temp_path, temp_open, replacements, header,
                   remove_idxs, col_idx, categories, sanitized, data_idx, hora_idx, ret>>
    /\ UNCHANGED dialect
    /\ UNCHANGED <<fnVars, mergeVars>>

\* one_hot_encode: the second pass, from opening the input to writing the new header
OneHotHeader ==
    /\ ipc = "open" /\ comp = "one_hot_encode"
    /\ dialect' = sniff(fs[input_path])
    /\ header' = Rows(fs[input_path], dialect')[1]
    /\ fs' = Put(fs, temp_path, Record(OneHotHeaderRow(header', col_idx, sanitized), dialect'))
    /\ temp_open' = TRUE /\ rd' = 1 /\ ipc' = "rows"
    /\ UNCHANGED <<ipArgs, moves, ierr, temp_path, replacements, remove_idxs, col_idx, categories,
                   sanitized, data_idx, hora_idx, ret>>
    /\ UNCHANGED <<fnVars, mergeVars>>

\* one_hot_encode: one turn of `for row in reader`
OneHotDataRow ==
    /\ ipc = "rows" /\ comp = "one_hot_encode" /\ MoreRows
    /\ \E row \in {NextRow} : writerow(OneHotRow(row, header, col_idx, sanitized))
    /\ rd' = rd + 1
    /\ UNCHANGED <<ipArgs, moves, ipc, ierr, temp_path, temp_open, replacements, header,
                   remove_idxs, col_idx, categories, sanitized, data_idx, hora_idx, ret>>
    /\ UNCHANGED dialect
    /\ UNCHANGED <<fnVars, mergeVars>>

\* transform_file: from opening the input to writing the new header
TransformHeader ==
    /\ ipc = "open" /\ comp = "transform_file"
    /\ dialect' = sniff(fs[input_path])
    /\ \E content \in {Rows(fs[input_path], dialect')} :
          LET lowered == [i \in 1..Len(content[1]) |-> Lower(content[1][i])]
              di == Index0(lowered, s_f_data)
              hi == Index0(lowered, s_f_hora_utc)
          IN  IF content = <<>>
              THEN /\ ipc' = "raised" /\ ierr' = "ValueError"
                   /\ UNCHANGED <<fs, rd, temp_open, header, data_idx, hora_idx, ret>>
              ELSE /\ header' = content[1]
                /\ data_idx' = di /\ hora_idx' = hi
                /\ ierr' = ierr
                /\ IF di = -1 /\ hi = -1
                   THEN /\ fs' = Remove(fs, temp_path)
                        /\ ret' = 0 /\ ipc' = "noop"
                        /\ UNCHANGED <<rd, temp_open>>
                   ELSE /\ fs' = Put(fs, temp_path,
                                     Record(TransformHeaderRow(content[1], di, hi), dialect'))
                        /\ temp_open' = TRUE /\ rd' = 1 /\ ipc' = "rows"
                        /\ ret' = ret
    /\ UNCHANGED <<ipArgs, moves, temp_path, replacements, remove_idxs, col_idx, categories,
                   sanitized>>
    /\ UNCHANGED <<fnVars, mergeVars>>

\* transform_file: one turn of `for row in reader`
TransformRow ==
    /\ ipc = "rows" /\ comp = "transform_file" /\ MoreRows
    /\ \E row \in {NextRow} : writerow(TransformedRow(row, header, data_idx, hora_idx))
    /\ rd' = rd + 1
    /\ UNCHANGED <<ipArgs, moves, ipc, ierr, temp_path, temp_open, replacements, header,
                   remove_idxs, col_idx, categories, sanitized, data_idx, hora_idx, ret>>
    /\ UNCHANGED dialect
    /\ UNCHANGED <<fnVars, mergeVars>>

\* the reader is exhausted: both with-blocks end and close their files
CloseFiles ==
    /\ ipc = "rows" /\ ~MoreRows
    /\ temp_open' = FALSE /\ ipc' = "written"
    /\ UNCHANGED <<ipArgs, moves, ierr, temp_path, fs, rd, replacements, header, remove_idxs,
                   col_idx, categories, sanitized, data_idx, hora_idx, ret>>
    /\ UNCHANGED dialect
    /\ UNCHANGED <<fnVars, mergeVars>>

\* the backup taken of the new content
Backup_of_output ==
    /\ ipc = "written" /\ inplace
    /\ fs' = copy2(fs, temp_path, backup_path)
    /\ ipc' = "backed_up"
    /\ UNCHANGED <<ipArgs, moves, ierr, temp_path, rd, temp_open, replacements, header, remove_idxs,
                   col_idx, categories, sanitized, data_idx, hora_idx, ret>>
    /\ UNCHANGED dialect
    /\ UNCHANGED <<fnVars, mergeVars>>

\* `shutil.copy2(input_path, backup_path)` of an in-place run
Backup ==
    /\ ipc = "written" /\ inplace
    /\ fs' = copy2(fs, input_path, backup_path)
    /\ ipc' = "backed_up"
    /\ UNCHANGED <<ipArgs, moves, ierr, temp_path, rd, temp_open, replacements, header, remove_idxs,
                   col_idx, categories, sanitized, data_idx, hora_idx, ret>>
    /\ UNCHANGED dialect
    /\ UNCHANGED <<fnVars, mergeVars>>

\* `shutil.move(temp_path, input_path)` of an in-place run, and the return
MoveIntoPlace ==
    /\ ipc = "backed_up"
    /\ fs' = move(fs, temp_path, input_path)
    /\ moves' = Append(moves, orig)
    /\ ret' = Returned /\ ipc' = "done"
    /\ UNCHANGED <<ipArgs, ierr, temp_path, rd, temp_open, replacements, header, remove_idxs,
                   col_idx, categories, sanitized, data_idx, hora_idx>>
    /\ UNCHANGED dialect
    /\ UNCHANGED <<fnVars, mergeVars>>

\* `shutil.move(temp_path, out_name)` of a run that is not in place, and the return
MoveToOutput ==
    /\ ipc = "written" /\ ~inplace
    /\ fs' = move(fs, temp_path, out_name)
    /\ ret' = Returned /\ ipc' = "done"
    /\ UNCHANGED <<ipArgs, moves, ierr, temp_path, rd, temp_open, replacements, header, remove_idxs,
                   col_idx, categories, sanitized, data_idx, hora_idx>>
    /\ UNCHANGED dialect
    /\ UNCHANGED <<fnVars, mergeVars>>

\* an OSError while the input is read or the temporary file written: the
\* with-blocks close the files and the exception leaves the function
IOError ==
    /\ ipc \in {"collect", "open", "rows"}
    /\ ipc' = "raised" /\ ierr' = "OSError" /\ temp_open' = FALSE
    /\ UNCHANGED <<ipArgs, moves, temp_path, fs, rd, replacements, header, remove_idxs, col_idx,
                   categories, sanitized, data_idx, hora_idx, ret>>
    /\ UNCHANGED dialect
    /\ UNCHANGED <<fnVars, mergeVars>>

\* the process is terminated between two steps
Interrupt ==
    /\ ipc \in {"collect", "mkstemp", "open", "rows", "written", "backed_up"}
    /\ ipc' = "killed" /\ temp_open' = FALSE
    /\ UNCHANGED <<ipArgs, moves, ierr, temp_path, fs, rd, replacements, header, remove_idxs,
                   col_idx, categories, sanitized, data_idx, hora_idx, ret>>
    /\ UNCHANGED dialect
    /\ UNCHANGED <<fnVars, mergeVars>>

\* the script is run again once a run has returned: with the same arguments after
\* an in-place run or a run that had nothing to do, on the output file of a run that
\* was not in place; the files of the model that are read hold no quoted field
RunAgain ==
    /\ ipc \in {"done", "noop"} /\ runs < MaxRuns
    /\ LET path == IF ipc = "done" /\ ~inplace THEN out_name ELSE input_path
       IN  /\ \A i \in 1..Len(fs[path]) : fs[path][i] # "\""
           /\ input_path' = path
           /\ orig' = fs[path]
    /\ runs' = runs + 1
    /\ ipc' = (IF comp = "one_hot_encode" THEN "collect" ELSE "mkstemp")
    /\ ierr' = "" /\ temp_path' = <<>> /\ rd' = 0 /\ temp_open' = FALSE
    /\ replacements' = 0 /\ header' = <<>> /\ remove_idxs' = {} /\ col_idx' = -1
    /\ categories' = <<>> /\ sanitized' = <<>> /\ data_idx' = -1 /\ hora_idx' = -1
    /\ ret' = -1 /\ dialect' = excel
    /\ UNCHANGED <<comp, inplace, fs, moves>>
    /\ UNCHANGED <<fnVars, mergeVars>>

IpNext ==
    \/ CollectCategories
    \/ Mkstemp
    \/ ProcessOpen
    \/ ProcessRow
    \/ SanitizerHeader
    \/ SanitizerRow
    \/ OneHotHeader
    \/ OneHotDataRow
    \/ TransformHeader
    \/ TransformRow
    \/ CloseFiles
    \/ Backup
    \/ MoveIntoPlace
    \/ MoveToOutput
    \/ IOError
    \/ Interrupt
    \/ RunAgain

SpecInPlace == IpInit /\ [][IpNext]_vars

(***************************************************************************)
(* Properties of the in-place components                                   *)
(***************************************************************************)
\* the rows the run's reader yields for the input as it was when the run started
OrigRows == Rows(orig, dialect)

\* the rows of a file the run writes, read back under the run's dialect
Written(text) == Rows(text, dialect)

\* the temporary file holds one row for every row of the input and is closed
TempComplete ==
    /\ ~temp_open
    /\ temp_path \in DOMAIN fs
    /\ Len(Written(fs[temp_path])) = Len(OrigRows)

\* C9: until the final move has been made the input file exists with the content it
\* had when the run started, also after an interruption or an I/O error; and the
\* only step that changes the input file is the final move, made when the
\* temporary file is complete and closed, which puts the temporary file's content
\* in its place.
C9_OriginalUntouchedUntilMove ==
    /\ [](ipc # "done" => input_path \in DOMAIN fs /\ fs[input_path] = orig)
    /\ [][fs'[input_path] # fs[input_path] =>
            /\ ipc \in {"written", "backed_up"} /\ ipc' = "done"
            /\ TempComplete
            /\ fs'[input_path] = fs[temp_path]]_vars

\* an in-place run stopped by an interruption or an I/O error while the temporary
\* file was partly written with rows that differ from the input's: the input is as
\* it was
C9_Witness ==
    /\ ipc \in {"killed", "raised"} /\ inplace
    /\ temp_path \in DOMAIN fs
    /\ LET temp == Written(fs[temp_path])
       IN  /\ 0 < Len(temp) /\ Len(temp) < Len(OrigRows)
           /\ temp # SubSeq(OrigRows, 1, Len(temp))
    /\ fs[input_path] = orig

\* the trimmed value of the encoded column in data row k of the input, empty when
\* the row has no such cell
EncodedValue(k) ==
    LET row == OrigRows[k + 1]
    IN  IF col_idx + 1 <= Len(row) THEN Strip(row[col_idx + 1]) ELSE <<>>

InputDataRows == 1..(Len(OrigRows) - 1)

FirstAppearance(v) ==
    CHOOSE k \in InputDataRows : EncodedValue(k) = v /\ \A j \in 1..(k - 1) : EncodedValue(j) # v

\* cats lists the distinct non-empty trimmed values, in order of first appearance
InFirstAppearanceOrder(cats) ==
    /\ { cats[i] : i \in 1..Len(cats) } = { EncodedValue(k) : k \in InputDataRows } \ {<<>>}
    /\ \A i, j \in 1..Len(cats) : i < j => FirstAppearance(cats[i]) < FirstAppearance(cats[j])

\* the first pass has ended with the column found
FirstPassDone == comp = "one_hot_encode" /\ header # <<>>

\* the rows the second pass has written so far, wherever they are now
EncoderOutput ==
    IF temp_path \in DOMAIN fs THEN Written(fs[temp_path])
    ELSE IF ipc = "done" THEN Written(fs[IF inplace THEN input_path ELSE out_name])
    ELSE <<>>

\* cell i of the input row, the encoded column left out; empty past the row's end
OtherCell(row, i) ==
    LET at == IF i <= col_idx THEN i ELSE i + 1
    IN  IF at <= Len(row) THEN row[at] ELSE <<>>

\* C10: the categories are the distinct non-empty trimmed values of the column in
\* order of first appearance; every output row is the input row without the encoded
\* column (padded to the header), followed by one cell per category, "1" exactly
\* where the row's trimmed value is that category and "0" elsewhere: no "1" for an
\* empty or missing value, exactly one otherwise.
C10_CategoriesAndOneHotCells ==
    FirstPassDone =>
        /\ InFirstAppearanceOrder(categories)
        /\ \A k \in 2..Len(EncoderOutput) :
              LET out == EncoderOutput[k]
                  n == Len(categories)
                  v == EncodedValue(k - 1)
                  width == IF Len(OrigRows[k]) > Len(header) THEN Len(OrigRows[k])
                           ELSE Len(header)
              IN  /\ Len(out) = (width - 1) + n
                  /\ \A i \in 1..(width - 1) : out[i] = OtherCell(OrigRows[k], i)
                  /\ \A c \in 1..n :
                        out[width - 1 + c] = IF v = categories[c] THEN <<"1">> ELSE <<"0">>
                  /\ Cardinality({ c \in 1..n : out[width - 1 + c] = <<"1">> })
                        = IF v = <<>> THEN 0 ELSE 1

\* the example: values Cerrado, Mata, Cerrado, '', '' give the categories Cerrado,
\* Mata and the rows [1,0], [0,1], [1,0], [0,0], [0,0]
C10_Witness ==
    /\ comp = "one_hot_encode" /\ ipc = "done"
    /\ orig = Text(ExampleFile, LF)
    /\ categories = <<sCerrado, sMata>>
    /\ fs[input_path] = Text(ExampleOutput, CRLF)

(***************************************************************************)
(* Sentinel Replacer                                                       *)
(***************************************************************************)
\* the rows the running component has written so far, wherever they are now
WrittenRows == EncoderOutput

\* the two spellings of the sentinel the specification names
NamedSentinels == { <<"-", "9", "9", "9">>, <<"-", "9", "9", "9", ".", "0">> }

\* other texts float() reads as -999.0
OtherSpellingsOfMinus999 ==
    { <<"-", "9", "9", "9", ".", "0", "0">>, <<"-", "9", "9", "9", ".">>,
      <<"-", "9", ".", "9", "9", "e", "2">>, <<"-", "9", "_", "9", "9">>,
      <<"-", "0", "9", "9", "9">> }

\* the positions <<row, cell>> of the rows
Positions(rows) == UNION { { <<k, i>> : i \in 1..Len(rows[k]) } : k \in 1..Len(rows) }

\* the replacer's output agrees with emptying exactly the cells that satisfy Emptied:
\* every row written has the width of its input row, a cell that satisfies Emptied is
\* written empty and any other cell as it was; at the end there is a row for every
\* input row and the count returned is the number of cells that satisfy Emptied
ReplacerEmpties(Emptied(_)) ==
    comp = "process" =>
        \A src \in {OrigRows}, out \in {WrittenRows} :
            /\ \A k \in 1..Len(out) :
                  /\ Len(out[k]) = Len(src[k])
                  /\ \A i \in 1..Len(src[k]) :
                        out[k][i] = IF Emptied(src[k][i]) THEN <<>> ELSE src[k][i]
            /\ ipc = "done" =>
                  /\ Len(out) = Len(src)
                  /\ ret = Cardinality({ p \in Positions(src) : Emptied(src[p[1]][p[2]]) })

IsNamedSentinel(cell) == cell \in NamedSentinels

\* C11 as stated: a cell is emptied when it is exactly "-999" or "-999.0" and is
\* otherwise written byte for byte as it was; rows and cells per row keep their
\* number and the count returned is the number of cells emptied.
C11_OnlyExactSentinelsEmptied == ReplacerEmpties(IsNamedSentinel)

\* the cell, without its surrounding blanks, spells -999
SpelledMinus999(cell) == Strip(cell) \in NamedSentinels \cup OtherSpellingsOfMinus999

\* C11 amended: a cell is emptied when, without its surrounding blanks, it is a
\* number equal to -999 ("-999", "-999.0", and also " -999 ", "-999.00", "-999.",
\* "-9.99e2", "-9_99", "-0999"), and is otherwise written byte for byte as it was
\* ("-999.5", "999", "+999", "-9990", "--999", "- 999", blank cells and text); rows
\* and cells per row keep their number and the count returned is the number of
\* cells emptied.
C11_NumericSentinelsEmptied == ReplacerEmpties(SpelledMinus999)

\* a finished run that emptied a cell no named spelling matches and kept near misses
C11_Witness ==
    /\ comp = "process" /\ ipc = "done"
    /\ \E src \in {OrigRows}, out \in {WrittenRows} :
          /\ \E p \in Positions(src) :
                /\ src[p[1]][p[2]] \notin NamedSentinels \cup {<<>>}
                /\ out[p[1]][p[2]] = <<>>
          /\ \E p \in Positions(src) :
                /\ src[p[1]][p[2]] = <<"-", "9", "9", "9", ".", "5">>
                /\ out[p[1]][p[2]] = src[p[1]][p[2]]
    /\ ret >= 2

(***************************************************************************)
(* Header Sanitizer                                                        *)
(***************************************************************************)
\* C12: the sanitizer is idempotent: a run on the file an earlier run returned from
\* reads a header with no blank cell and no cell that starts with "unnamed", removes
\* no column, returns 0 and leaves the file as it was.
C12_SanitizerIdempotent ==
    (comp = "remove_empty_header_columns" /\ runs > 1) =>
        /\ RemoveIdxs(header) = {} /\ remove_idxs = {}
        /\ ipc \notin {"rows", "written", "backed_up", "done"}
        /\ ipc = "noop" => ret = 0 /\ fs[input_path] = orig

(***************************************************************************)
(* Temporal Feature Expander: the fraction of the day                      *)
(***************************************************************************)
\* the call of parse_time_to_fraction has returned or raised
FractionCalled == Called("parse_time_to_fraction")

Fraction == calls["parse_time_to_fraction"]

\* the result for a first digit run that reads as hour H and minute M
WrappedFraction(H, M) ==
    [none |-> FALSE, raised |-> FALSE, minutes |-> (H % 24) * 60 + (M % 60)]

\* for a cell whose first digit run is of the model's hours and minutes (at most five
\* digits) the result is ((H mod 24) * 60 + (M mod 60)) / 1440, a value in [0, 1); a
\* cell without a digit gives no result
FractionOfShortRuns ==
    FractionCalled =>
        /\ input.kind = "time" =>
              /\ Fraction = WrappedFraction(input.src[1], input.src[2])
              /\ 0 <= Fraction.minutes /\ Fraction.minutes < MinutesPerDay
        /\ input.kind = "no_time" => Fraction = NoFraction

\* C13: with T the first digit run of the cell, the result is
\* ((H mod 24) * 60 + (M mod 60)) / 1440 for (H, M) = (T[:-2], T[-2:]) when T has three
\* or more digits and (T, 0) otherwise, a value in [0, 1); no cell that holds a digit
\* run is rejected; a cell without a digit, or an empty one, gives no result.
C13_FractionOfDay ==
    /\ FractionOfShortRuns
    /\ (FractionCalled /\ input.kind = "long_time") => ~Fraction.none /\ ~Fraction.raised

(***************************************************************************)
(* Categorical Encoder: the names of the columns                           *)
(***************************************************************************)
\* the names have been generated for the list of categories
Named == Called("sanitized")

\* the name generated for the i-th category
GeneratedName(i) == calls["sanitized"][i][2]

\* the sanitized form of the i-th category
Form(i) == sanitize_colname(input.strs[i])

NamesDistinct ==
    \A i, j \in 1..Len(input.strs) : i # j => GeneratedName(i) # GeneratedName(j)

\* no earlier category has the sanitized form of the i-th
FirstOfItsForm(i) == \A j \in 1..(i - 1) : Form(j) # Form(i)

\* C14 as stated: the generated names are pairwise distinct, and the first category
\* having a given sanitized form keeps that form without a suffix.
C14_FirstOfFormKeepsForm ==
    Named =>
        /\ NamesDistinct
        /\ \A i \in 1..Len(input.strs) : FirstOfItsForm(i) => GeneratedName(i) = Form(i)

\* C14 amended: the generated names are pairwise distinct, and the first category
\* having a given sanitized form keeps that form without a suffix unless the form is
\* already the name generated for an earlier category ('a', 'a!', 'a_1' give a, a_1,
\* a_1_1).
C14_FirstOfFormKeepsFreeForm ==
    Named =>
        /\ NamesDistinct
        /\ \A i \in 1..Len(input.strs) :
              (FirstOfItsForm(i) /\ \A j \in 1..(i - 1) : GeneratedName(j) # Form(i))
                  => GeneratedName(i) = Form(i)

\* two categories of one form, an empty form and a form that looks like a suffixed
\* name, free when its category comes
C14_Witness ==
    /\ Named
    /\ \E i, j \in 1..Len(input.strs) :
          i < j /\ Form(i) = Form(j) /\ GeneratedName(i) = Form(i) /\ GeneratedName(j) # Form(j)
    /\ \E i \in 1..Len(input.strs) :
          /\ Form(i) = <<"a", "_", "1">> /\ GeneratedName(i) = Form(i) /\ i > 1
    /\ \E i \in 1..Len(input.strs) : input.strs[i] = <<"?", "?">> /\ GeneratedName(i) = s_bioma

(***************************************************************************)
(* Width of the rows written                                               *)
(***************************************************************************)
\* C15: every data row written has exactly as many cells as the header written: short
\* rows are padded and long rows do not produce wider rows (Header Sanitizer,
\* Categorical Encoder, Temporal Feature Expander).
C15_RowsAsWideAsHeader ==
    comp \in {"remove_empty_header_columns", "one_hot_encode", "transform_file"} =>
        \A out \in {WrittenRows} : \A k \in 2..Len(out) : Len(out[k]) = Len(out[1])

(***************************************************************************)
(* The backup                                                              *)
(***************************************************************************)
\* C16: when an in-place run has returned, the .bak file holds exactly what the input
\* file held before the most recent run that moved its output into place (there is
\* no .bak when no run has); a run that returns early with nothing to do leaves the
\* file as it was, and the .bak with it.
C16_BackupIsPreviousContent ==
    (inplace /\ ipc \in {"done", "noop"}) =>
        /\ IF moves = <<>> THEN backup_path \notin DOMAIN fs
           ELSE backup_path \in DOMAIN fs /\ fs[backup_path] = moves[Len(moves)]
        /\ ipc = "noop" => fs[input_path] = orig

\* a run with nothing to do, after a run that rewrote the file: the .bak still holds
\* what the file held before the rewrite
C16_Witness ==
    /\ inplace /\ ipc = "noop" /\ runs > 1
    /\ moves # <<>> /\ fs[backup_path] = moves[Len(moves)]
    /\ fs[backup_path] # fs[input_path]

(***************************************************************************)
(* Column Pruner, then Temporal Joiner                                     *)
(***************************************************************************)
\* what _round_datetime_string_to_hour makes of the data_pas cell
RoundedCell == round_datetime_string_to_hour(Strip(input.strs[1]))

PrunedAndParsed ==
    /\ input.kind = "data_pas"
    /\ Called("remove_columns")
    /\ calls["remove_columns"].tag = "cells"
    /\ Called("parse_focos_datetime")

\* the composition holds of the timestamps rounded into the years 1000 to 9999
PrunedCellsKeyedFromYear1000 ==
    PrunedAndParsed =>
        \A rounded \in {RoundedCell} :
            (rounded.tag = "datetime" /\ rounded.v[1] >= 1000) =>
                calls["parse_focos_datetime"] = rounded

\* C17: for every timestamp that _round_datetime_string_to_hour accepts, the (data,
\* hora_utc) cells remove_columns writes are accepted by parse_focos_datetime, and
\* the key it returns is the year, month, day and hour of the rounded timestamp,
\* rollovers to the next day, month and year included.
C17_PrunedCellsKeyed ==
    PrunedAndParsed =>
        \A rounded \in {RoundedCell} :
            rounded.tag = "datetime" => calls["parse_focos_datetime"] = rounded

====
